---------------------------- MODULE Spec2Model ----------------------------
(***************************************************************************)
(* Traffic-signal decision engine of intelligent_traffic_control:          *)
(* the emergency priority FSM, the safety validator, the fixed-time and    *)
(* adaptive controllers and the integrated arbiter.                        *)
(*                                                                         *)
(* Conventions.  Time is counted in whole seconds and distance in whole    *)
(* metres.  A Python Optional value is the empty tuple << >> (None) or a   *)
(* one-element tuple << v >>.  A lane identifier is the tuple of its       *)
(* characters, so that split('_')[0] is computed and not assumed.          *)
(***************************************************************************)
EXTENDS Integers, Sequences, FiniteSets, TLC

VARIABLES
    sut,              \* which object the run drives
    now,              \* current_time of the latest update call
    op,               \* the latest call: "init", "update" or "reset"
    emergency,        \* EmergencyPriorityController fields
    in_emergency_mode,\* IntegratedSignalController.in_emergency_mode
    adaptive,         \* AdaptiveController fields (with its SafetyValidator)
    fixed,            \* FixedTimeController fields (with its SafetyValidator)
    out,              \* string returned by the latest update call
    calls,            \* calls made by the latest IntegratedSignalController.update
    hist,             \* observations kept about the run so far
    feed,             \* vehicle feed handed to the state estimator (detection runs)
    detected,         \* result of _detect_emergency on that feed
    ev,               \* the single emergency vehicle of the approach scenario
    validator,        \* a stand-alone SafetyValidator and the requests made of it
    tracker,          \* a stand-alone LaneStateTracker
    plan,             \* inputs of the latest green-time planning
    estimator,        \* TrafficStateEstimator fields (its lane tracker is tracker)
    istate,           \* IntersectionState returned by the latest estimator update
    answer,           \* value returned by the latest query call
    fresh             \* after a reset: controllers constructed at the reset,
                      \* updated with the same arguments, and their latest string

vars == << sut, now, op, emergency, in_emergency_mode, adaptive, fixed, out,
           calls, hist, feed, detected, ev, validator, tracker, plan,
           estimator, istate, answer, fresh >>

---------------------------------------------------------------------------
(* Bounds of the model *)

MaxTime == 30
MaxTimeEmergency == 22
MaxTimeIntegrated == 17
MaxVehicles == 2
MaxResets == 1
MaxSpeed == 60

\* Intervals between two consecutive update calls (seconds)
Dts == {1, 2, 5}

\* Distances to the stop line a vehicle of the feed can report (metres)
Distances == {0, 5, 80, 100, 101}

---------------------------------------------------------------------------
(* Optional values *)

None == << >>
Some(v) == << v >>
IsNone(o) == o = << >>
Val(o) == o[1]

---------------------------------------------------------------------------
(* Lane identifiers and the lane-id naming convention *)

N_in_0 == << "N", "_", "i", "n", "_", "0" >>
E_in_0 == << "E", "_", "i", "n", "_", "0" >>

\* lane_ids handed to the tracker, in configuration order
lane_ids == << N_in_0, E_in_0 >>

ConfiguredLanes == {lane_ids[i] : i \in 1..Len(lane_ids)}

\* lane_id.split('_')[0]: the characters before the first underscore
RECURSIVE SplitFirst(_)
SplitFirst(s) ==
    IF s = << >> \/ Head(s) = "_" THEN << >>
    ELSE << Head(s) >> \o SplitFirst(Tail(s))

---------------------------------------------------------------------------
(* Timing parameters of the emergency FSM *)

DETECTION_THRESHOLD == 100
PREEMPTION_THRESHOLD == 80
CLEARING_DISTANCE == 5
CLEARANCE_TIME == 5
COOLDOWN_TIME == 10

EmergencyState == {"NORMAL", "DETECTED", "PREEMPTING", "CLEARING", "COOLDOWN"}

---------------------------------------------------------------------------
(* Vehicle feed -> lane states -> IntersectionState (emergency fields) *)

\* PerceivedVehicle records of the feed: lane, distance and emergency flag
Vehicles ==
    [lane_id : {lane_ids[i] : i \in 1..Len(lane_ids)},
     distance_to_stop_line : Distances,
     is_emergency : BOOLEAN]

SetMin(S) == CHOOSE m \in S : \A x \in S : m <= x

\* LaneStateTracker._compute_lane_state: the emergency fields of a lane
compute_lane_state(lane_id, vehicles) ==
    LET emergency_vehicles == {v \in vehicles : v.is_emergency}
        emergency_distances ==
            {v.distance_to_stop_line : v \in
                {w \in emergency_vehicles : w.distance_to_stop_line >= 0}}
    IN  [lane_id |-> lane_id,
         has_emergency_vehicle |-> emergency_vehicles # {},
         emergency_vehicle_distance |->
             IF emergency_distances # {} THEN Some(SetMin(emergency_distances))
             ELSE None]

\* LaneStateTracker.update: one LaneState per configured lane
tracker_update(perceived_vehicles) ==
    [i \in 1..Len(lane_ids) |->
        compute_lane_state(lane_ids[i],
            {v \in perceived_vehicles : v.lane_id = lane_ids[i]})]

\* TrafficStateEstimator.update: has_emergency over the lane states.  The
\* per-approach aggregates (approach_metrics) enter as an input of the tick.
estimator_update(perceived_vehicles, approach_metrics) ==
    LET lane_states == tracker_update(perceived_vehicles)
    IN  [lane_states |-> lane_states,
         approach_metrics |-> approach_metrics,
         has_emergency |->
             \E i \in 1..Len(lane_states) : lane_states[i].has_emergency_vehicle]

---------------------------------------------------------------------------
(* LaneStateTracker: per-vehicle clocks and the per-lane snapshot *)

\* Speeds are counted in tenths of a metre per second
STOPPED_SPEED_THRESHOLD_X10 == 5
QUEUE_DISTANCE_THRESHOLD == 30
LANE_LENGTH == 100
CLEANUP_TIMEOUT == 10
HISTORY_LENGTH == 50

\* track ids of the vehicles a stand-alone tracker is fed
TrackIds == {1, 2}

\* A lane that is not among the configured lane_ids
W_in_0 == << "W", "_", "i", "n", "_", "0" >>

\* np.sqrt on the perfect squares the model's velocities give
Sqrt(n) == CHOOSE r \in 0..n : r * r = n

\* speed = np.sqrt(v.velocity[0]**2 + v.velocity[1]**2)
speed_of(v) == Sqrt(v.velocity[1] * v.velocity[1] + v.velocity[2] * v.velocity[2])

\* np.mean(values) if values else 0.0, kept as the fraction num / den
RECURSIVE SeqSum(_)
SeqSum(q) == IF q = << >> THEN 0 ELSE Head(q) + SeqSum(Tail(q))
mean_or_zero(values) ==
    IF values = << >> THEN [num |-> 0, den |-> 1]
    ELSE [num |-> SeqSum(values), den |-> Len(values)]

RECURSIVE SeqMax(_)
SeqMax(q) ==
    IF Len(q) = 1 THEN Head(q)
    ELSE LET m == SeqMax(Tail(q)) IN IF Head(q) >= m THEN Head(q) ELSE m

\* LaneStateTracker.__init__
LaneStateTrackerInit ==
    [lane_ids |-> lane_ids,
     current_states |-> << >>,          \* empty dict until the first update
     state_history_len |-> [i \in 1..Len(lane_ids) |-> 0],
     vehicle_first_seen |-> [id \in TrackIds |-> None],   \* None: no entry
     vehicle_stop_time |-> [id \in TrackIds |-> None],
     vehicle_last_speed |-> [id \in TrackIds |-> None],
     vehicle_last_lane |-> [id \in TrackIds |-> None]]

\* The first loop of update: first appearances and last lanes
RECURSIVE track_appearance(_, _, _)
track_appearance(tr, vehicles, current_time) ==
    IF vehicles = << >> THEN tr
    ELSE
        LET v == Head(vehicles)
            t1 == IF IsNone(tr.vehicle_first_seen[v.track_id])
                  THEN [tr EXCEPT !.vehicle_first_seen[v.track_id] = Some(current_time),
                                  !.vehicle_stop_time[v.track_id] = None,
                                  !.vehicle_last_speed[v.track_id] = Some(0)]
                  ELSE tr
            t2 == IF ~IsNone(v.lane_id)
                  THEN [t1 EXCEPT !.vehicle_last_lane[v.track_id] = v.lane_id]
                  ELSE t1
        IN  track_appearance(t2, Tail(vehicles), current_time)

\* vehicles_by_lane[lane_id]: the vehicles of a configured lane, in feed order
vehicles_by_lane(tr, vehicles, lane_id) ==
    SelectSeq(vehicles, LAMBDA v : v.lane_id = Some(lane_id))

\* _update_stop_times that starts the clock at the first observation
RECURSIVE update_stop_times_first_seen(_, _, _)
update_stop_times_first_seen(tr, vehicles, current_time) ==
    IF vehicles = << >> THEN tr
    ELSE
        LET v == Head(vehicles)
            speed == speed_of(v)
            t1 == IF speed < STOPPED_SPEED_THRESHOLD_X10
                  THEN [tr EXCEPT !.vehicle_stop_time[v.track_id] =
                                       tr.vehicle_first_seen[v.track_id]]
                  ELSE [tr EXCEPT !.vehicle_stop_time[v.track_id] = None]
        IN  update_stop_times_first_seen(
                [t1 EXCEPT !.vehicle_last_speed[v.track_id] = Some(speed)],
                Tail(vehicles), current_time)

\* LaneStateTracker._update_stop_times
RECURSIVE update_stop_times(_, _, _)
update_stop_times(tr, vehicles, current_time) ==
    IF vehicles = << >> THEN tr
    ELSE
        LET v == Head(vehicles)
            speed == speed_of(v)
            t1 == IF speed < STOPPED_SPEED_THRESHOLD_X10
                  THEN IF IsNone(tr.vehicle_stop_time[v.track_id])
                       THEN [tr EXCEPT !.vehicle_stop_time[v.track_id] =
                                            Some(current_time)]
                       ELSE tr
                  ELSE [tr EXCEPT !.vehicle_stop_time[v.track_id] = None]
        IN  update_stop_times(
                [t1 EXCEPT !.vehicle_last_speed[v.track_id] = Some(speed)],
                Tail(vehicles), current_time)

\* LaneState(lane_id=lane_id, timestamp=current_time): every other field at
\* its default
EmptyLaneState(lane_id, current_time) ==
    [lane_id |-> lane_id,
     timestamp |-> current_time,
     vehicle_count |-> 0,
     stopped_vehicles |-> 0,
     queue_length |-> 0,
     queue_vehicle_count |-> 0,
     density |-> 0,
     avg_speed |-> [num |-> 0, den |-> 1],
     avg_waiting_time |-> [num |-> 0, den |-> 1],
     has_emergency_vehicle |-> FALSE,
     emergency_vehicle_distance |-> None,
     vehicle_distances |-> << >>,
     vehicle_speeds |-> << >>]

\* _compute_lane_state with a queue zone that ends short of its threshold
compute_lane_state_at_open_zone(tr, lane_id, vehicles, current_time) ==
    IF Len(vehicles) = 0 THEN EmptyLaneState(lane_id, current_time)
    ELSE
        LET stopped(v) == speed_of(v) < STOPPED_SPEED_THRESHOLD_X10
            in_lane == SelectSeq(vehicles, LAMBDA v : v.distance_to_stop_line >= 0)
            distances == [i \in 1..Len(in_lane) |-> in_lane[i].distance_to_stop_line]
            speeds == [i \in 1..Len(vehicles) |-> speed_of(vehicles[i])]
            queued_vehicles ==
                SelectSeq(vehicles, LAMBDA v :
                    /\ v.distance_to_stop_line >= 0
                    /\ v.distance_to_stop_line < QUEUE_DISTANCE_THRESHOLD
                    /\ stopped(v))
            waiting ==
                SelectSeq(vehicles, LAMBDA v :
                    stopped(v) /\ ~IsNone(tr.vehicle_stop_time[v.track_id]))
            waiting_times ==
                [i \in 1..Len(waiting) |->
                    current_time - Val(tr.vehicle_stop_time[waiting[i].track_id])]
            emergency_fields ==
                compute_lane_state(lane_id, {vehicles[i] : i \in 1..Len(vehicles)})
        IN  [lane_id |-> lane_id,
             timestamp |-> current_time,
             vehicle_count |-> Len(vehicles),
             stopped_vehicles |-> Len(SelectSeq(vehicles, stopped)),
             queue_length |->
                 IF queued_vehicles # << >>
                 THEN SeqMax([i \in 1..Len(queued_vehicles) |->
                                 queued_vehicles[i].distance_to_stop_line])
                 ELSE 0,
             queue_vehicle_count |-> Len(queued_vehicles),
             density |-> (Len(vehicles) * 100) \div LANE_LENGTH,
             avg_speed |-> mean_or_zero(speeds),
             avg_waiting_time |-> mean_or_zero(waiting_times),
             has_emergency_vehicle |-> emergency_fields.has_emergency_vehicle,
             emergency_vehicle_distance |-> emergency_fields.emergency_vehicle_distance,
             vehicle_distances |-> distances,
             vehicle_speeds |-> speeds]

\* LaneStateTracker._compute_lane_state, every field
compute_lane_state_at(tr, lane_id, vehicles, current_time) ==
    IF Len(vehicles) = 0 THEN EmptyLaneState(lane_id, current_time)
    ELSE
        LET stopped(v) == speed_of(v) < STOPPED_SPEED_THRESHOLD_X10
            in_lane == SelectSeq(vehicles, LAMBDA v : v.distance_to_stop_line >= 0)
            distances == [i \in 1..Len(in_lane) |-> in_lane[i].distance_to_stop_line]
            speeds == [i \in 1..Len(vehicles) |-> speed_of(vehicles[i])]
            queued_vehicles ==
                SelectSeq(vehicles, LAMBDA v :
                    /\ v.distance_to_stop_line >= 0
                    /\ v.distance_to_stop_line <= QUEUE_DISTANCE_THRESHOLD
                    /\ stopped(v))
            waiting ==
                SelectSeq(vehicles, LAMBDA v :
                    stopped(v) /\ ~IsNone(tr.vehicle_stop_time[v.track_id]))
            waiting_times ==
                [i \in 1..Len(waiting) |->
                    current_time - Val(tr.vehicle_stop_time[waiting[i].track_id])]
            emergency_fields ==
                compute_lane_state(lane_id, {vehicles[i] : i \in 1..Len(vehicles)})
        IN  [lane_id |-> lane_id,
             timestamp |-> current_time,
             vehicle_count |-> Len(vehicles),
             stopped_vehicles |-> Len(SelectSeq(vehicles, stopped)),
             queue_length |->
                 IF queued_vehicles # << >>
                 THEN SeqMax([i \in 1..Len(queued_vehicles) |->
                                 queued_vehicles[i].distance_to_stop_line])
                 ELSE 0,
             queue_vehicle_count |-> Len(queued_vehicles),
             density |-> (Len(vehicles) * 100) \div LANE_LENGTH,
             avg_speed |-> mean_or_zero(speeds),
             avg_waiting_time |-> mean_or_zero(waiting_times),
             has_emergency_vehicle |-> emergency_fields.has_emergency_vehicle,
             emergency_vehicle_distance |-> emergency_fields.emergency_vehicle_distance,
             vehicle_distances |-> distances,
             vehicle_speeds |-> speeds]

\* The snapshot loop that skips the lanes without vehicles
RECURSIVE new_states_skip_empty(_, _, _, _)
new_states_skip_empty(tr, lanes, vehicles, current_time) ==
    IF lanes = << >> THEN << >>
    ELSE
        LET lane_id == lanes[Len(lanes)]
            earlier == new_states_skip_empty(tr, SubSeq(lanes, 1, Len(lanes) - 1),
                                             vehicles, current_time)
        IN  IF vehicles_by_lane(tr, vehicles, lane_id) = << >> THEN earlier
            ELSE (lane_id :> compute_lane_state_at(tr, lane_id,
                                 vehicles_by_lane(tr, vehicles, lane_id), current_time))
                     @@ earlier

\* new_states: the dict filled by the loop over self.lane_ids, a later
\* assignment replacing an earlier one for the same key
RECURSIVE new_states(_, _, _, _)
new_states(tr, lanes, vehicles, current_time) ==
    IF lanes = << >> THEN << >>
    ELSE
        LET lane_id == lanes[Len(lanes)]
            earlier == new_states(tr, SubSeq(lanes, 1, Len(lanes) - 1),
                                  vehicles, current_time)
        IN  (lane_id :> compute_lane_state_at(tr, lane_id,
                            vehicles_by_lane(tr, vehicles, lane_id), current_time))
                @@ earlier

\* LaneStateTracker._cleanup_old_vehicles
cleanup_old_vehicles(tr, current_vehicles, current_time) ==
    LET current_track_ids ==
            {current_vehicles[i].track_id : i \in 1..Len(current_vehicles)}
        to_remove ==
            {id \in TrackIds :
                /\ ~IsNone(tr.vehicle_first_seen[id])
                /\ id \notin current_track_ids
                /\ current_time - Val(tr.vehicle_first_seen[id]) > CLEANUP_TIMEOUT}
        pop(d) == [id \in TrackIds |-> IF id \in to_remove THEN None ELSE d[id]]
    IN  [tr EXCEPT !.vehicle_first_seen = pop(tr.vehicle_first_seen),
                   !.vehicle_stop_time = pop(tr.vehicle_stop_time),
                   !.vehicle_last_speed = pop(tr.vehicle_last_speed),
                   !.vehicle_last_lane = pop(tr.vehicle_last_lane)]

\* LaneStateTracker.update
lane_state_tracker_update(tr, perceived_vehicles, current_time) ==
    LET t1 == track_appearance(tr, perceived_vehicles, current_time)
        t2 == update_stop_times(t1, perceived_vehicles, current_time)
        states == new_states(t2, t2.lane_ids, perceived_vehicles, current_time)
        t3 == [t2 EXCEPT !.current_states = states,
                         !.state_history_len =
                             [i \in 1..Len(t2.lane_ids) |->
                                 IF t2.state_history_len[i] < HISTORY_LENGTH
                                 THEN t2.state_history_len[i] + 1
                                 ELSE HISTORY_LENGTH]]
    IN  cleanup_old_vehicles(t3, perceived_vehicles, current_time)

---------------------------------------------------------------------------
(* TrafficStateEstimator: smoothing and aggregation *)

\* Real-valued fields are kept as fractions num / den of naturals
RECURSIVE Gcd(_, _)
Gcd(a, b) == IF b = 0 THEN a ELSE Gcd(b, a % b)
Frac(n, d) == LET g == Gcd(n, d) IN [num |-> n \div g, den |-> d \div g]
FracOf(n) == [num |-> n, den |-> 1]
FracAdd(a, b) == Frac(a.num * b.den + b.num * a.den, a.den * b.den)
FracScale(k, a) == Frac(k * a.num, a.den)
FracLeq(a, b) == a.num * b.den <= b.num * a.den
FracEq(a, b) == a.num * b.den = b.num * a.den

RECURSIVE FracSum(_)
FracSum(q) == IF q = << >> THEN FracOf(0) ELSE FracAdd(Head(q), FracSum(Tail(q)))

RECURSIVE FracMax(_)
FracMax(q) ==
    IF Len(q) = 1 THEN Head(q)
    ELSE LET m == FracMax(Tail(q)) IN IF FracLeq(m, Head(q)) THEN Head(q) ELSE m

\* The smoothing factors of MultiVariableEMA, in tenths
ALPHAS_X10 ==
    [queue_length |-> 3, density |-> 4, avg_waiting_time |-> 2, vehicle_count |-> 5]

Approaches == << "N", "S", "E", "W" >>

\* TrafficStateEstimator.__init__: no filter holds a key yet
TrafficStateEstimatorInit(enable_smoothing) ==
    [enable_smoothing |-> enable_smoothing,
     smoother |-> [var \in DOMAIN ALPHAS_X10 |-> [l \in ConfiguredLanes |-> None]]]

\* ExponentialMovingAverage.update: state is the filter's entry for the key
ema_update(alpha_x10, state, value) ==
    IF IsNone(state) THEN value
    ELSE Frac(alpha_x10 * value.num * Val(state).den
                  + (10 - alpha_x10) * Val(state).num * value.den,
              10 * value.den * Val(state).den)

\* values handed to the smoother for a lane
smoothing_values(state) ==
    [queue_length |-> FracOf(state.queue_length),
     density |-> FracOf(state.density),
     avg_waiting_time |-> state.avg_waiting_time,
     vehicle_count |-> FracOf(state.vehicle_count)]

\* MultiVariableEMA.update for every lane of states: the smoothed values
smoothed_values(est, states) ==
    [l \in DOMAIN states |->
        [var \in DOMAIN ALPHAS_X10 |->
            ema_update(ALPHAS_X10[var], est.smoother[var][l],
                       smoothing_values(states[l])[var])]]

\* TrafficStateEstimator._smooth_states: the new LaneState copies and the
\* filters after the call
smooth_states(est, states) ==
    LET sv == smoothed_values(est, states)
    IN  [est |-> [est EXCEPT !.smoother =
                     [var \in DOMAIN ALPHAS_X10 |->
                         [l \in ConfiguredLanes |->
                             IF l \in DOMAIN states THEN Some(sv[l][var])
                             ELSE est.smoother[var][l]]]],
         states |->
             [l \in DOMAIN states |->
                 [states[l] EXCEPT
                     !.vehicle_count = sv[l].vehicle_count.num \div sv[l].vehicle_count.den,
                     !.queue_length = sv[l].queue_length,
                     !.density = sv[l].density,
                     !.avg_waiting_time = sv[l].avg_waiting_time]]]

\* The raw LaneStates as returned when smoothing is disabled
unsmoothed_states(states) ==
    [l \in DOMAIN states |->
        [states[l] EXCEPT !.queue_length = FracOf(states[l].queue_length),
                          !.density = FracOf(states[l].density)]]

\* lid.startswith(approach + '_')
StartsWith(lid, approach) == Len(lid) >= 2 /\ lid[1] = approach /\ lid[2] = "_"

\* LaneStateTracker.get_approach_metrics, over the tracker's current_states
get_approach_metrics(tr, approach) ==
    LET lids == SelectSeq(tr.lane_ids,
                    LAMBDA l : l \in DOMAIN tr.current_states /\ StartsWith(l, approach))
        states == [i \in 1..Len(lids) |-> tr.current_states[lids[i]]]
        total_stopped == SeqSum([i \in 1..Len(states) |-> states[i].stopped_vehicles])
        total_waiting ==
            FracSum([i \in 1..Len(states) |->
                        FracScale(states[i].stopped_vehicles, states[i].avg_waiting_time)])
    IN  IF states = << >>
        THEN [total_vehicles |-> 0, total_queue_length |-> 0,
              avg_density |-> FracOf(0), avg_waiting_time |-> FracOf(0),
              stopped_vehicles |-> 0, has_emergency |-> FALSE]
        ELSE [total_vehicles |-> SeqSum([i \in 1..Len(states) |-> states[i].vehicle_count]),
              total_queue_length |->
                  SeqSum([i \in 1..Len(states) |-> states[i].queue_length]),
              avg_density |->
                  Frac(SeqSum([i \in 1..Len(states) |-> states[i].density]), Len(states)),
              avg_waiting_time |->
                  IF total_stopped > 0
                  THEN Frac(total_waiting.num, total_waiting.den * total_stopped)
                  ELSE FracOf(0),
              stopped_vehicles |-> total_stopped,
              has_emergency |->
                  \E i \in 1..Len(states) : states[i].has_emergency_vehicle]

\* The first approach, in dict order, whose metrics report an emergency
RECURSIVE first_emergency_approach(_, _)
first_emergency_approach(approach_metrics, approaches) ==
    IF approaches = << >> THEN None
    ELSE IF approach_metrics[Head(approaches)].has_emergency
         THEN Some(Head(approaches))
         ELSE first_emergency_approach(approach_metrics, Tail(approaches))

\* TrafficStateEstimator.update with the vehicle total taken before smoothing
state_estimator_update_raw_total(est, tr, perceived_vehicles, current_time) ==
    LET tr1 == lane_state_tracker_update(tr, perceived_vehicles, current_time)
        raw_states == tr1.current_states
        sm == IF est.enable_smoothing THEN smooth_states(est, raw_states)
              ELSE [est |-> est, states |-> unsmoothed_states(raw_states)]
        smoothed_states == sm.states
        approach_metrics ==
            [a \in {Approaches[i] : i \in 1..Len(Approaches)} |->
                get_approach_metrics(tr1, a)]
        lids == SelectSeq(tr1.lane_ids, LAMBDA l : l \in DOMAIN smoothed_states)
        values == [i \in 1..Len(lids) |-> smoothed_states[lids[i]]]
        has_emergency == \E i \in 1..Len(values) : values[i].has_emergency_vehicle
        emergency_states ==
            SelectSeq(values, LAMBDA s :
                s.has_emergency_vehicle /\ ~IsNone(s.emergency_vehicle_distance))
    IN  [est |-> sm.est,
         tr |-> tr1,
         state |->
            [timestamp |-> current_time,
             lane_states |-> smoothed_states,
             approach_metrics |-> approach_metrics,
             total_vehicles |->
                 SeqSum([i \in 1..Len(lids) |-> raw_states[lids[i]].vehicle_count]),
             total_stopped |->
                 SeqSum([i \in 1..Len(values) |-> values[i].stopped_vehicles]),
             total_waiting_time |->
                 FracSum([i \in 1..Len(values) |->
                     FracScale(values[i].stopped_vehicles, values[i].avg_waiting_time)]),
             max_queue_length |->
                 IF values # << >>
                 THEN FracMax([i \in 1..Len(values) |-> values[i].queue_length])
                 ELSE FracOf(0),
             has_emergency |-> has_emergency,
             emergency_approach |->
                 IF has_emergency
                 THEN first_emergency_approach(approach_metrics, Approaches)
                 ELSE None,
             emergency_distance |->
                 IF has_emergency /\ emergency_states # << >>
                 THEN Some(SetMin({Val(emergency_states[i].emergency_vehicle_distance) :
                                      i \in 1..Len(emergency_states)}))
                 ELSE None]]

\* TrafficStateEstimator.update: the estimator and its tracker after the
\* call, and the IntersectionState returned
state_estimator_update(est, tr, perceived_vehicles, current_time) ==
    LET tr1 == lane_state_tracker_update(tr, perceived_vehicles, current_time)
        raw_states == tr1.current_states
        sm == IF est.enable_smoothing THEN smooth_states(est, raw_states)
              ELSE [est |-> est, states |-> unsmoothed_states(raw_states)]
        smoothed_states == sm.states
        approach_metrics ==
            [a \in {Approaches[i] : i \in 1..Len(Approaches)} |->
                get_approach_metrics(tr1, a)]
        lids == SelectSeq(tr1.lane_ids, LAMBDA l : l \in DOMAIN smoothed_states)
        values == [i \in 1..Len(lids) |-> smoothed_states[lids[i]]]
        has_emergency == \E i \in 1..Len(values) : values[i].has_emergency_vehicle
        emergency_states ==
            SelectSeq(values, LAMBDA s :
                s.has_emergency_vehicle /\ ~IsNone(s.emergency_vehicle_distance))
    IN  [est |-> sm.est,
         tr |-> tr1,
         state |->
            [timestamp |-> current_time,
             lane_states |-> smoothed_states,
             approach_metrics |-> approach_metrics,
             total_vehicles |-> SeqSum([i \in 1..Len(values) |-> values[i].vehicle_count]),
             total_stopped |->
                 SeqSum([i \in 1..Len(values) |-> values[i].stopped_vehicles]),
             total_waiting_time |->
                 FracSum([i \in 1..Len(values) |->
                     FracScale(values[i].stopped_vehicles, values[i].avg_waiting_time)]),
             max_queue_length |->
                 IF values # << >>
                 THEN FracMax([i \in 1..Len(values) |-> values[i].queue_length])
                 ELSE FracOf(0),
             has_emergency |-> has_emergency,
             emergency_approach |->
                 IF has_emergency
                 THEN first_emergency_approach(approach_metrics, Approaches)
                 ELSE None,
             emergency_distance |->
                 IF has_emergency /\ emergency_states # << >>
                 THEN Some(SetMin({Val(emergency_states[i].emergency_vehicle_distance) :
                                      i \in 1..Len(emergency_states)}))
                 ELSE None]]

---------------------------------------------------------------------------
(* EmergencyPriorityController *)

EmergencyInit ==
    [state |-> "NORMAL",
     emergency_approach |-> None,
     emergency_distance |-> None,
     emergency_phase |-> "None",
     state_entry_time |-> 0]

\* One pass of the loop of _detect_emergency over lane_states[i..]
RECURSIVE detect_loop(_, _, _)
detect_loop(lane_states, i, closest) ==
    IF i > Len(lane_states) THEN closest
    ELSE
        LET lane_state == lane_states[i]
            skip == \/ ~lane_state.has_emergency_vehicle
                    \/ IsNone(lane_state.emergency_vehicle_distance)
            distance == Val(lane_state.emergency_vehicle_distance)
            closer == /\ distance > 0
                      /\ (IsNone(closest.distance) \/ distance < Val(closest.distance))
        IN  IF skip THEN detect_loop(lane_states, i + 1, closest)
            ELSE IF closer
                 THEN detect_loop(lane_states, i + 1,
                          [approach |-> Some(SplitFirst(lane_state.lane_id)),
                           distance |-> Some(distance)])
                 ELSE detect_loop(lane_states, i + 1, closest)

\* closest_distance starts at float('inf'), written None here
detect_emergency(intersection_state) ==
    IF ~intersection_state.has_emergency
    THEN [has_emergency |-> FALSE, approach |-> None, distance |-> None]
    ELSE
        LET closest == detect_loop(intersection_state.lane_states, 1,
                                   [approach |-> None, distance |-> None])
        IN  IF IsNone(closest.approach)
            THEN [has_emergency |-> FALSE, approach |-> None, distance |-> None]
            ELSE [has_emergency |-> TRUE, approach |-> closest.approach,
                  distance |-> closest.distance]

get_emergency_phase(approach) ==
    IF approach \in {<< "N" >>, << "S" >>} THEN "EMERGENCY_NS" ELSE "EMERGENCY_EW"

\* update_normal with the detection threshold excluded (< for <=)
update_normal_strict(e, d, current_time) ==
    IF d.has_emergency /\ ~IsNone(d.distance) /\ Val(d.distance) < DETECTION_THRESHOLD
    THEN [e EXCEPT !.state = "DETECTED",
                   !.state_entry_time = current_time,
                   !.emergency_approach = d.approach,
                   !.emergency_distance = d.distance]
    ELSE e

update_normal(e, d, current_time) ==
    IF d.has_emergency /\ ~IsNone(d.distance) /\ Val(d.distance) <= DETECTION_THRESHOLD
    THEN [e EXCEPT !.state = "DETECTED",
                   !.state_entry_time = current_time,
                   !.emergency_approach = d.approach,
                   !.emergency_distance = d.distance]
    ELSE e

\* update_detected that enters PREEMPTING without choosing the emergency phase
update_detected_no_phase(e, d, current_time) ==
    IF ~d.has_emergency \/ IsNone(d.distance)
    THEN [e EXCEPT !.state = "NORMAL",
                   !.emergency_approach = None,
                   !.emergency_distance = None]
    ELSE IF Val(d.distance) <= PREEMPTION_THRESHOLD
         THEN [e EXCEPT !.emergency_approach = d.approach,
                        !.emergency_distance = d.distance,
                        !.state = "PREEMPTING",
                        !.state_entry_time = current_time]
         ELSE [e EXCEPT !.emergency_approach = d.approach,
                        !.emergency_distance = d.distance]

update_detected(e, d, current_time) ==
    IF ~d.has_emergency \/ IsNone(d.distance)
    THEN [e EXCEPT !.state = "NORMAL",
                   !.emergency_approach = None,
                   !.emergency_distance = None]
    ELSE IF Val(d.distance) <= PREEMPTION_THRESHOLD
         THEN [e EXCEPT !.emergency_approach = d.approach,
                        !.emergency_distance = d.distance,
                        !.state = "PREEMPTING",
                        !.state_entry_time = current_time,
                        !.emergency_phase = get_emergency_phase(Val(d.approach))]
         ELSE [e EXCEPT !.emergency_approach = d.approach,
                        !.emergency_distance = d.distance]

\* update_preempting that treats a lost vehicle as a false alarm, as DETECTED does
update_preempting_to_normal(e, d, current_time) ==
    IF ~d.has_emergency \/ IsNone(d.distance)
    THEN [e EXCEPT !.state = "NORMAL",
                   !.emergency_approach = None,
                   !.emergency_distance = None]
    ELSE IF Val(d.distance) <= CLEARING_DISTANCE
         THEN [e EXCEPT !.emergency_distance = d.distance,
                        !.state = "CLEARING",
                        !.state_entry_time = current_time]
         ELSE [e EXCEPT !.emergency_distance = d.distance]

update_preempting(e, d, current_time) ==
    IF ~d.has_emergency \/ IsNone(d.distance)
    THEN [e EXCEPT !.state = "CLEARING", !.state_entry_time = current_time]
    ELSE IF Val(d.distance) <= CLEARING_DISTANCE
         THEN [e EXCEPT !.emergency_distance = d.distance,
                        !.state = "CLEARING",
                        !.state_entry_time = current_time]
         ELSE [e EXCEPT !.emergency_distance = d.distance]

\* update_clearing that enters COOLDOWN without restarting state_entry_time
update_clearing_keep_entry(e, current_time) ==
    IF current_time - e.state_entry_time >= CLEARANCE_TIME
    THEN [e EXCEPT !.state = "COOLDOWN"]
    ELSE e

update_clearing(e, current_time) ==
    IF current_time - e.state_entry_time >= CLEARANCE_TIME
    THEN [e EXCEPT !.state = "COOLDOWN", !.state_entry_time = current_time]
    ELSE e

\* _update_cooldown that restarts the cooldown on every update
update_cooldown_rearm(e, current_time) ==
    IF current_time - e.state_entry_time >= COOLDOWN_TIME + COOLDOWN_TIME
    THEN [e EXCEPT !.state = "NORMAL",
                   !.emergency_approach = None,
                   !.emergency_distance = None,
                   !.emergency_phase = "None"]
    ELSE [e EXCEPT !.state_entry_time = current_time]

update_cooldown(e, current_time) ==
    IF current_time - e.state_entry_time >= COOLDOWN_TIME
    THEN [e EXCEPT !.state = "NORMAL",
                   !.emergency_approach = None,
                   !.emergency_distance = None,
                   !.emergency_phase = "None"]
    ELSE e

\* EmergencyPriorityController.update: detection, then the state dispatch
emergency_update(e, intersection_state, current_time) ==
    LET d == detect_emergency(intersection_state)
    IN  CASE e.state = "NORMAL" -> update_normal(e, d, current_time)
          [] e.state = "DETECTED" -> update_detected(e, d, current_time)
          [] e.state = "PREEMPTING" -> update_preempting(e, d, current_time)
          [] e.state = "CLEARING" -> update_clearing(e, current_time)
          [] e.state = "COOLDOWN" -> update_cooldown(e, current_time)

is_active(e) == e.state \in {"PREEMPTING", "CLEARING"}

get_signal_command(e) ==
    IF e.state \in {"PREEMPTING", "CLEARING"}
    THEN << TRUE, e.emergency_phase >>
    ELSE << FALSE, "None" >>

emergency_reset(e) == EmergencyInit

\* EmergencyPriorityController.get_state_info
get_state_info(e) ==
    [state |-> e.state,
     is_active |-> is_active(e),
     emergency_approach |-> e.emergency_approach,
     emergency_distance |-> e.emergency_distance,
     emergency_phase |-> e.emergency_phase]

\* A get_signal_command that hands the phase over once: the value returned,
\* and the controller's fields after the call
emergency_query_consume(e, method) ==
    CASE method = "get_signal_command" ->
            [result |-> get_signal_command(e),
             e |-> [e EXCEPT !.emergency_phase = "None"]]
      [] method = "is_active" -> [result |-> is_active(e), e |-> e]
      [] method = "get_state_info" -> [result |-> get_state_info(e), e |-> e]

\* The query methods of EmergencyPriorityController: the value returned, and
\* the controller's fields after the call
emergency_query(e, method) ==
    CASE method = "get_signal_command" -> [result |-> get_signal_command(e), e |-> e]
      [] method = "is_active" -> [result |-> is_active(e), e |-> e]
      [] method = "get_state_info" -> [result |-> get_state_info(e), e |-> e]

---------------------------------------------------------------------------
(* Signal phases and their 12-character signal strings *)

Rep3(c) == << c, c, c >>

\* [N0 N1 N2][E0 E1 E2][S0 S1 S2][W0 W1 W2]
SignalString(n, e, s, w) == Rep3(n) \o Rep3(e) \o Rep3(s) \o Rep3(w)

GREEN_NS == SignalString("G", "r", "G", "r")
YELLOW_NS == SignalString("y", "r", "y", "r")
GREEN_EW == SignalString("r", "G", "r", "G")
YELLOW_EW == SignalString("r", "y", "r", "y")
ALL_RED == SignalString("r", "r", "r", "r")

YELLOW_DURATION == 3
ALL_RED_DURATION == 2

\* get_phase with a yellow string for NS_THROUGH that already opens the
\* cross street
get_phase_open_cross_street(phase_type) ==
    CASE phase_type = "NS_THROUGH" ->
            [green_approaches |-> << "N", "S" >>,
             yellow_duration |-> YELLOW_DURATION, all_red_duration |-> ALL_RED_DURATION,
             sumo_state_green |-> GREEN_NS,
             sumo_state_yellow |-> SignalString("y", "G", "y", "G"),
             sumo_state_red |-> ALL_RED]
      [] phase_type = "EW_THROUGH" ->
            [green_approaches |-> << "E", "W" >>,
             yellow_duration |-> YELLOW_DURATION, all_red_duration |-> ALL_RED_DURATION,
             sumo_state_green |-> GREEN_EW, sumo_state_yellow |-> YELLOW_EW,
             sumo_state_red |-> ALL_RED]
      [] phase_type = "EMERGENCY_NS" ->
            [green_approaches |-> << "N", "S" >>,
             yellow_duration |-> YELLOW_DURATION, all_red_duration |-> ALL_RED_DURATION,
             sumo_state_green |-> GREEN_NS, sumo_state_yellow |-> YELLOW_NS,
             sumo_state_red |-> ALL_RED]
      [] phase_type = "EMERGENCY_EW" ->
            [green_approaches |-> << "E", "W" >>,
             yellow_duration |-> YELLOW_DURATION, all_red_duration |-> ALL_RED_DURATION,
             sumo_state_green |-> GREEN_EW, sumo_state_yellow |-> YELLOW_EW,
             sumo_state_red |-> ALL_RED]

\* SignalPhaseController.phases / get_phase
get_phase(phase_type) ==
    CASE phase_type = "NS_THROUGH" ->
            [green_approaches |-> << "N", "S" >>,
             yellow_duration |-> YELLOW_DURATION, all_red_duration |-> ALL_RED_DURATION,
             sumo_state_green |-> GREEN_NS, sumo_state_yellow |-> YELLOW_NS,
             sumo_state_red |-> ALL_RED]
      [] phase_type = "EW_THROUGH" ->
            [green_approaches |-> << "E", "W" >>,
             yellow_duration |-> YELLOW_DURATION, all_red_duration |-> ALL_RED_DURATION,
             sumo_state_green |-> GREEN_EW, sumo_state_yellow |-> YELLOW_EW,
             sumo_state_red |-> ALL_RED]
      [] phase_type = "EMERGENCY_NS" ->
            [green_approaches |-> << "N", "S" >>,
             yellow_duration |-> YELLOW_DURATION, all_red_duration |-> ALL_RED_DURATION,
             sumo_state_green |-> GREEN_NS, sumo_state_yellow |-> YELLOW_NS,
             sumo_state_red |-> ALL_RED]
      [] phase_type = "EMERGENCY_EW" ->
            [green_approaches |-> << "E", "W" >>,
             yellow_duration |-> YELLOW_DURATION, all_red_duration |-> ALL_RED_DURATION,
             sumo_state_green |-> GREEN_EW, sumo_state_yellow |-> YELLOW_EW,
             sumo_state_red |-> ALL_RED]

---------------------------------------------------------------------------
(* SafetyValidator *)

MIN_PHASE_GAP == 5
EMERGENCY_GAP == 2
RETRY_DELAY == 5

\* validate_transition without the minimum-gap check
validate_transition_no_gap(last_phase_change, current_phase, next_phase, current_time) ==
    TRUE

\* validate_transition that also rejects a request made exactly at the gap
validate_transition_scaled_late(last_phase_change, current_phase, next_phase, current_time, ticks) ==
    IF current_time - last_phase_change <= MIN_PHASE_GAP * ticks THEN FALSE
    ELSE TRUE

\* validate_transition with its times counted in 1/ticks of a second, given
\* the validator's last_phase_change: is_safe
validate_transition_scaled(last_phase_change, current_phase, next_phase, current_time, ticks) ==
    IF current_time - last_phase_change < MIN_PHASE_GAP * ticks THEN FALSE
    ELSE IF current_phase = next_phase THEN TRUE
    ELSE TRUE

\* validate_transition with its times in whole seconds
validate_transition(last_phase_change, current_phase, next_phase, current_time) ==
    validate_transition_scaled(last_phase_change, current_phase, next_phase,
                               current_time, 1)

\* record_transition: the new last_phase_change
record_transition(last_phase_change, current_time) == current_time

\* check_emergency_override_safe: is the override approved
check_emergency_override_safe(last_phase_change, current_time) ==
    ~(current_time - last_phase_change < EMERGENCY_GAP)

\* A stand-alone validator is driven with times in tenths of a second
TICKS_PER_SECOND == 10

\* SafetyValidator.__init__, with the log of the requests made of it
ValidatorInit ==
    [last_phase_change |-> 0,
     time |-> 0,        \* time of the latest request (tenths of a second)
     n |-> 0,           \* requests made so far
     prev |-> None,     \* the request before the latest
     last |-> None]     \* the latest request and its verdict

\* One request: validate_transition, then record_transition if it was accepted
validator_request(v, current_phase, next_phase, current_time) ==
    LET ok == validate_transition_scaled(v.last_phase_change, current_phase,
                                         next_phase, current_time, TICKS_PER_SECOND)
    IN  [last_phase_change |->
             IF ok THEN record_transition(v.last_phase_change, current_time)
             ELSE v.last_phase_change,
         time |-> current_time,
         n |-> v.n + 1,
         prev |-> v.last,
         last |-> Some([time |-> current_time, current_phase |-> current_phase,
                        next_phase |-> next_phase, ok |-> ok])]

---------------------------------------------------------------------------
(* FixedTimeController *)

FixedInit(ns_green_time, ew_green_time) ==
    [ns_green_time |-> ns_green_time,
     ew_green_time |-> ew_green_time,
     current_phase |-> "NS_THROUGH",
     phase_start_time |-> 0,
     next_transition_time |-> ns_green_time,
     in_transition |-> FALSE,
     transition_stage |-> 0,
     transition_target_phase |-> "None",
     yellow_start_time |-> None,      \* attribute absent until a yellow starts
     all_red_start_time |-> None,     \* attribute absent until an all-red starts
     last_phase_change |-> 0]         \* safety_validator.last_phase_change

fixed_get_next_phase(c) ==
    IF c.current_phase = "NS_THROUGH" THEN "EW_THROUGH" ELSE "NS_THROUGH"

\* FixedTimeController._handle_transition: new fields and returned string
fixed_handle_transition(c, current_time) ==
    LET config == get_phase(c.current_phase)
    IN  IF c.transition_stage = 1 THEN
            LET ys == IF IsNone(c.yellow_start_time) THEN current_time
                      ELSE Val(c.yellow_start_time)
            IN  IF current_time - ys >= config.yellow_duration
                THEN [c |-> [c EXCEPT !.transition_stage = 2,
                                      !.all_red_start_time = Some(current_time),
                                      !.yellow_start_time = None],
                      out |-> config.sumo_state_yellow]
                ELSE [c |-> [c EXCEPT !.yellow_start_time = Some(ys)],
                      out |-> config.sumo_state_yellow]
        ELSE IF c.transition_stage = 2 THEN
            IF current_time - Val(c.all_red_start_time) >= config.all_red_duration
            THEN [c |-> [c EXCEPT !.current_phase = c.transition_target_phase,
                                  !.phase_start_time = current_time,
                                  !.in_transition = FALSE,
                                  !.transition_stage = 0,
                                  !.next_transition_time =
                                      IF c.transition_target_phase = "NS_THROUGH"
                                      THEN current_time + c.ns_green_time
                                      ELSE current_time + c.ew_green_time,
                                  !.last_phase_change =
                                      record_transition(c.last_phase_change,
                                                        current_time),
                                  !.all_red_start_time = None],
                  out |-> get_phase(c.transition_target_phase).sumo_state_green]
            ELSE [c |-> c, out |-> config.sumo_state_red]
        ELSE [c |-> c, out |-> config.sumo_state_green]

\* Is a transition attempted by FixedTimeController.update at current_time
fixed_transition_due(c, current_time) ==
    ~c.in_transition /\ current_time >= c.next_transition_time

\* The transition check at the top of FixedTimeController.update
fixed_check_transition(c, current_time) ==
    IF ~c.in_transition /\ current_time >= c.next_transition_time THEN
        LET target == fixed_get_next_phase(c)
            started == [c EXCEPT !.in_transition = TRUE,
                                 !.transition_stage = 1,
                                 !.transition_target_phase = target]
        IN  IF validate_transition(c.last_phase_change, c.current_phase, target,
                                   current_time)
            THEN started
            ELSE [started EXCEPT !.in_transition = FALSE,
                                 !.next_transition_time = current_time + RETRY_DELAY]
    ELSE c

\* FixedTimeController.update (intersection_state is ignored)
fixed_update(c, current_time) ==
    LET c1 == fixed_check_transition(c, current_time)
    IN  IF c1.in_transition THEN fixed_handle_transition(c1, current_time)
        ELSE [c |-> c1, out |-> get_phase(c1.current_phase).sumo_state_green]

fixed_reset(c) ==
    [c EXCEPT !.current_phase = "NS_THROUGH",
              !.phase_start_time = 0,
              !.next_transition_time = c.ns_green_time,
              !.in_transition = FALSE,
              !.transition_stage = 0]

---------------------------------------------------------------------------
(* AdaptiveController *)

\* wait timers are counted in tenths of a second (the code adds 0.1 per update)
MAX_WAIT_BEFORE_OVERRIDE == 900
WAIT_INCREMENT == 1

\* saturation_flow is kept in tenths of vehicles/second/lane
AdaptiveInit(min_green, max_green, saturation_flow_x10) ==
    [min_green |-> min_green,
     max_green |-> max_green,
     saturation_flow_x10 |-> saturation_flow_x10,
     current_phase |-> "NS_THROUGH",
     phase_start_time |-> 0,
     planned_green_time |-> min_green,
     in_transition |-> FALSE,
     transition_stage |-> 0,
     transition_target_phase |-> "None",
     phase_wait_times |-> [NS_THROUGH |-> 0, EW_THROUGH |-> 0],
     yellow_start_time |-> None,      \* attribute absent until a yellow starts
     all_red_start_time |-> None,     \* attribute absent until an all-red starts
     last_phase_change |-> 0]         \* safety_validator.last_phase_change

Max2(a, b) == IF a >= b THEN a ELSE b
Min2(a, b) == IF a <= b THEN a ELSE b

RECURSIVE SumOver(_, _, _)
SumOver(approaches, metrics, field) ==
    IF approaches = << >> THEN 0
    ELSE metrics[Head(approaches)][field] + SumOver(Tail(approaches), metrics, field)

\* _calculate_green_time that forgets the lower bound min_green
calculate_green_time_no_floor(c, approach_metrics, phase_type) ==
    LET approaches == get_phase(phase_type).green_approaches
        total_queue == SumOver(approaches, approach_metrics, "total_queue_length")
        total_vehicles == SumOver(approaches, approach_metrics, "total_vehicles")
        green_time == (5 * total_queue) \div
                          (7 * c.saturation_flow_x10 * Len(approaches))
    IN  IF total_vehicles = 0 THEN c.min_green
        ELSE Min2(c.max_green, green_time)

\* AdaptiveController._calculate_green_time.
\* 1.5 * (q / 7) / (saturation_flow * n * 3) = 5 q / (7 * saturation_flow_x10 * n);
\* the queue lengths of the model make the quotient exact.
calculate_green_time(c, approach_metrics, phase_type) ==
    LET approaches == get_phase(phase_type).green_approaches
        total_queue == SumOver(approaches, approach_metrics, "total_queue_length")
        total_vehicles == SumOver(approaches, approach_metrics, "total_vehicles")
        green_time == (5 * total_queue) \div
                          (7 * c.saturation_flow_x10 * Len(approaches))
    IN  IF total_vehicles = 0 THEN c.min_green
        ELSE Max2(c.min_green, Min2(c.max_green, green_time))

\* The phases _select_next_phase finds starved
starved_phases(c) ==
    {p \in {"NS_THROUGH", "EW_THROUGH"} :
        c.phase_wait_times[p] > MAX_WAIT_BEFORE_OVERRIDE /\ p # c.current_phase}

\* _select_next_phase that extends the current phase when another one is starved
select_next_phase_keep(c) ==
    IF starved_phases(c) # {} THEN c.current_phase
    ELSE IF c.current_phase = "NS_THROUGH" THEN "EW_THROUGH" ELSE "NS_THROUGH"

\* AdaptiveController._select_next_phase (phase_wait_times is scanned NS, then EW)
select_next_phase(c) ==
    LET candidate == IF c.current_phase = "NS_THROUGH" THEN "EW_THROUGH"
                     ELSE "NS_THROUGH"
        starved(p) == /\ c.phase_wait_times[p] > MAX_WAIT_BEFORE_OVERRIDE
                      /\ p # c.current_phase
    IN  IF starved("NS_THROUGH") THEN "NS_THROUGH"
        ELSE IF starved("EW_THROUGH") THEN "EW_THROUGH"
        ELSE candidate

\* AdaptiveController._update_wait_times
update_wait_times(c) ==
    [c EXCEPT !.phase_wait_times =
        [p \in {"NS_THROUGH", "EW_THROUGH"} |->
            IF p = c.current_phase THEN 0
            ELSE c.phase_wait_times[p] + WAIT_INCREMENT]]

\* _handle_transition that records the transition as soon as the yellow ends
adaptive_handle_transition_early(c, current_time) ==
    LET config == get_phase(c.current_phase)
    IN  IF c.transition_stage = 1 THEN
            LET ys == IF IsNone(c.yellow_start_time) THEN current_time
                      ELSE Val(c.yellow_start_time)
            IN  IF current_time - ys >= config.yellow_duration
                THEN [c |-> [c EXCEPT !.transition_stage = 2,
                                      !.all_red_start_time = Some(current_time),
                                      !.last_phase_change = current_time,
                                      !.yellow_start_time = None],
                      out |-> config.sumo_state_yellow]
                ELSE [c |-> [c EXCEPT !.yellow_start_time = Some(ys)],
                      out |-> config.sumo_state_yellow]
        ELSE IF c.transition_stage = 2 THEN
            IF current_time - Val(c.all_red_start_time) >= config.all_red_duration
            THEN [c |-> [c EXCEPT !.current_phase = c.transition_target_phase,
                                  !.phase_start_time = current_time,
                                  !.in_transition = FALSE,
                                  !.transition_stage = 0,
                                  !.last_phase_change = current_time,
                                  !.all_red_start_time = None],
                  out |-> get_phase(c.transition_target_phase).sumo_state_green]
            ELSE [c |-> c, out |-> config.sumo_state_red]
        ELSE [c |-> c, out |-> config.sumo_state_green]

\* AdaptiveController._handle_transition: new fields and returned string
adaptive_handle_transition(c, current_time) ==
    LET config == get_phase(c.current_phase)
    IN  IF c.transition_stage = 1 THEN
            LET ys == IF IsNone(c.yellow_start_time) THEN current_time
                      ELSE Val(c.yellow_start_time)
            IN  IF current_time - ys >= config.yellow_duration
                THEN [c |-> [c EXCEPT !.transition_stage = 2,
                                      !.all_red_start_time = Some(current_time),
                                      !.yellow_start_time = None],
                      out |-> config.sumo_state_yellow]
                ELSE [c |-> [c EXCEPT !.yellow_start_time = Some(ys)],
                      out |-> config.sumo_state_yellow]
        ELSE IF c.transition_stage = 2 THEN
            IF current_time - Val(c.all_red_start_time) >= config.all_red_duration
            THEN [c |-> [c EXCEPT !.current_phase = c.transition_target_phase,
                                  !.phase_start_time = current_time,
                                  !.in_transition = FALSE,
                                  !.transition_stage = 0,
                                  !.last_phase_change =
                                      record_transition(c.last_phase_change,
                                                        current_time),
                                  !.all_red_start_time = None],
                  out |-> get_phase(c.transition_target_phase).sumo_state_green]
            ELSE [c |-> c, out |-> config.sumo_state_red]
        ELSE [c |-> c, out |-> config.sumo_state_green]

\* Is a transition attempted by AdaptiveController.update at current_time
adaptive_transition_due(c, current_time) ==
    ~c.in_transition /\ current_time - c.phase_start_time >= c.planned_green_time

\* The transition check whose retry is planned from now, not from the phase start
adaptive_check_transition_retry_abs(c, approach_metrics, current_time) ==
    LET phase_elapsed == current_time - c.phase_start_time
    IN  IF ~c.in_transition /\ phase_elapsed >= c.planned_green_time THEN
            LET next_phase == select_next_phase(c)
                next_green_time == calculate_green_time(c, approach_metrics, next_phase)
                started == [c EXCEPT !.in_transition = TRUE,
                                     !.transition_stage = 1,
                                     !.transition_target_phase = next_phase,
                                     !.planned_green_time = next_green_time]
            IN  IF validate_transition(c.last_phase_change, c.current_phase,
                                       next_phase, current_time)
                THEN started
                ELSE [started EXCEPT !.in_transition = FALSE,
                                     !.planned_green_time = RETRY_DELAY]
        ELSE c

\* The transition check at the top of AdaptiveController.update
adaptive_check_transition(c, approach_metrics, current_time) ==
    LET phase_elapsed == current_time - c.phase_start_time
    IN  IF ~c.in_transition /\ phase_elapsed >= c.planned_green_time THEN
            LET next_phase == select_next_phase(c)
                next_green_time == calculate_green_time(c, approach_metrics, next_phase)
                started == [c EXCEPT !.in_transition = TRUE,
                                     !.transition_stage = 1,
                                     !.transition_target_phase = next_phase,
                                     !.planned_green_time = next_green_time]
            IN  IF validate_transition(c.last_phase_change, c.current_phase,
                                       next_phase, current_time)
                THEN started
                ELSE [started EXCEPT !.in_transition = FALSE,
                                     !.planned_green_time = phase_elapsed + RETRY_DELAY]
        ELSE c

\* AdaptiveController.update
adaptive_update(c, approach_metrics, current_time) ==
    LET c1 == adaptive_check_transition(c, approach_metrics, current_time)
        c2 == update_wait_times(c1)
    IN  IF c2.in_transition THEN adaptive_handle_transition(c2, current_time)
        ELSE [c |-> c2, out |-> get_phase(c2.current_phase).sumo_state_green]

adaptive_reset(c) ==
    [c EXCEPT !.current_phase = "NS_THROUGH",
              !.phase_start_time = 0,
              !.planned_green_time = c.min_green,
              !.in_transition = FALSE,
              !.phase_wait_times = [NS_THROUGH |-> 0, EW_THROUGH |-> 0]]

---------------------------------------------------------------------------
(* IntegratedSignalController *)

INTEGRATED_MIN_GREEN == 10
INTEGRATED_MAX_GREEN == 60
INTEGRATED_SATURATION_X10 == 5

\* integrated_update that keeps the adaptive controller running under an override
integrated_update_both(e, a, mode, intersection_state, current_time) ==
    LET e1 == emergency_update(e, intersection_state, current_time)
        command == get_signal_command(e1)
        r == adaptive_update(a, intersection_state.approach_metrics, current_time)
    IN  IF command[1]
        THEN [emergency |-> e1, adaptive |-> r.c, in_emergency_mode |-> TRUE,
              out |-> get_phase(command[2]).sumo_state_green,
              calls |-> [emergency |-> 1, adaptive |-> 1]]
        ELSE [emergency |-> e1, adaptive |-> r.c, in_emergency_mode |-> FALSE,
              out |-> r.out,
              calls |-> [emergency |-> 1, adaptive |-> 1]]

\* IntegratedSignalController.update: the new controller fields, the returned
\* string, and how often each sub-controller's update was called
integrated_update(e, a, mode, intersection_state, current_time) ==
    LET e1 == emergency_update(e, intersection_state, current_time)
        command == get_signal_command(e1)
    IN  IF command[1]
        THEN [emergency |-> e1, adaptive |-> a, in_emergency_mode |-> TRUE,
              out |-> get_phase(command[2]).sumo_state_green,
              calls |-> [emergency |-> 1, adaptive |-> 0]]
        ELSE
            LET r == adaptive_update(a, intersection_state.approach_metrics,
                                     current_time)
            IN  [emergency |-> e1, adaptive |-> r.c, in_emergency_mode |-> FALSE,
                 out |-> r.out,
                 calls |-> [emergency |-> 1, adaptive |-> 1]]

\* IntegratedSignalController.get_status: the dict returned, and the
\* controller's fields after the call
integrated_get_status(e, mode) ==
    LET info == emergency_query(e, "get_state_info")
    IN  [result |->
             [mode |-> IF mode THEN "EMERGENCY" ELSE "NORMAL",
              emergency_state |-> info.result.state,
              emergency_active |-> info.result.is_active,
              emergency_approach |-> info.result.emergency_approach,
              emergency_distance |-> info.result.emergency_distance,
              emergency_phase |-> info.result.emergency_phase],
         emergency |-> info.e,
         in_emergency_mode |-> mode]

\* IntegratedSignalController.reset
integrated_reset(e, a, mode) ==
    [adaptive |-> adaptive_reset(a),
     emergency |-> emergency_reset(e),
     in_emergency_mode |-> FALSE]

---------------------------------------------------------------------------
(* Inputs of a tick *)

\* Feeds of at most n vehicles drawn from V
RECURSIVE FeedsUpTo(_, _)
FeedsUpTo(V, n) ==
    IF n = 0 THEN {{}}
    ELSE LET P == FeedsUpTo(V, n - 1)
         IN  P \cup {S \cup {v} : S \in P, v \in V}

EmergencyVehicles == {v \in Vehicles : v.is_emergency}
EmergencyFeeds == FeedsUpTo(EmergencyVehicles, MaxVehicles)
\* The arbiter is driven with feeds of at most one emergency vehicle
IntegratedFeeds == {{}} \cup {{v} : v \in EmergencyVehicles}
AllFeeds == FeedsUpTo(Vehicles, MaxVehicles)

\* Per-approach aggregates: an empty approach, or six vehicles queued over 84 m
Demand == {[total_queue_length |-> 0, total_vehicles |-> 0],
           [total_queue_length |-> 84, total_vehicles |-> 6]}
ApproachMetrics == [{"N", "S", "E", "W"} -> Demand]
NoDemand == [a \in {"N", "S", "E", "W"} |-> [total_queue_length |-> 0, total_vehicles |-> 0]]
FullDemand == [a \in {"N", "S", "E", "W"} |-> [total_queue_length |-> 84, total_vehicles |-> 6]]

\* Green times a stand-alone controller is configured with
GreenTimes == {3, 10}

---------------------------------------------------------------------------
(* Observations about the run *)

IsGreen(s) == s \in {GREEN_NS, GREEN_EW}
IsYellow(s) == s \in {YELLOW_NS, YELLOW_EW}
Axis(s) == IF s \in {GREEN_NS, YELLOW_NS} THEN "NS"
           ELSE IF s \in {GREEN_EW, YELLOW_EW} THEN "EW" ELSE "none"

HistInit == [axis |-> "none",   \* axis of the latest green string returned
             y |-> FALSE,       \* a yellow string was returned since that green
             r |-> FALSE,       \* an all-red string was returned after that yellow
             deact |-> None,    \* time at which the override last stopped being active
             since |-> None,    \* time of the update that last changed the FSM state
             resets |-> 0,      \* reset calls so far
             rejected_at |-> None, \* time of the latest rejected transition attempt
             pending |-> FALSE, \* no attempt was accepted since that rejection
             forced |-> FALSE,  \* the latest next-phase selection found a starved phase
             shown_since |-> 0, \* time of the update that first returned the
                                \* string now displayed
             ended |-> None,    \* the string the latest update replaced, and the
                                \* time it was displayed
             last_seen |-> [id \in TrackIds |-> None],
                                \* per vehicle: time of the latest update that
                                \* reported it
             runs |-> [id \in TrackIds |-> [status |-> "unseen", run |-> None]]]
                                \* per vehicle: reported at every update since it was
                                \* first reported ("continuous") or not ("broken"), and
                                \* the time of the first update of its current run of
                                \* updates with a speed below the stopped threshold

ObserveOut(h, s) ==
    IF IsGreen(s) THEN [h EXCEPT !.axis = Axis(s), !.y = FALSE, !.r = FALSE]
    ELSE IF IsYellow(s) THEN [h EXCEPT !.y = TRUE]
    ELSE [h EXCEPT !.r = h.r \/ h.y]

ObserveEmergency(h, e, e1, current_time) ==
    [h EXCEPT !.deact = IF is_active(e) /\ ~is_active(e1) THEN Some(current_time)
                        ELSE h.deact,
              !.since = IF e1.state # e.state THEN Some(current_time) ELSE h.since]

\* The display time of a string: from the update that first returns it to
\* the update that first returns a different string
ObserveDisplay(h, shown, s, current_time) ==
    IF s = shown THEN [h EXCEPT !.ended = None]
    ELSE [h EXCEPT !.shown_since = current_time,
                   !.ended = IF shown = << >> THEN None
                             ELSE Some([string |-> shown,
                                        duration |-> current_time - h.shown_since])]

\* attempted: the update tried to begin a transition; c1: the controller after it
ObserveAttempt(h, attempted, c1, current_time) ==
    IF attempted /\ ~c1.in_transition
    THEN [h EXCEPT !.rejected_at = Some(current_time), !.pending = TRUE]
    ELSE IF attempted THEN [h EXCEPT !.pending = FALSE]
    ELSE h

\* selecting: the update selected a next phase; c: the controller before it
ObserveSelection(h, selecting, c) ==
    IF selecting THEN [h EXCEPT !.forced = starved_phases(c) # {}] ELSE h

\* The vehicle runs observed on the feed of an update
ObserveRuns(h, vehicles, current_time) ==
    [h EXCEPT !.last_seen =
        [id \in TrackIds |->
            IF \E i \in 1..Len(vehicles) : vehicles[i].track_id = id
            THEN Some(current_time) ELSE h.last_seen[id]],
              !.runs =
        [id \in TrackIds |->
            LET reports == SelectSeq(vehicles, LAMBDA v : v.track_id = id)
                old == h.runs[id]
            IN  IF reports = << >>
                THEN [status |-> IF old.status = "unseen" THEN "unseen" ELSE "broken",
                      run |-> None]
                ELSE [status |-> IF old.status = "unseen" THEN "continuous"
                                 ELSE old.status,
                      run |-> IF speed_of(Head(reports)) < STOPPED_SPEED_THRESHOLD_X10
                              THEN IF IsNone(old.run) THEN Some(current_time)
                                   ELSE old.run
                              ELSE None]]]

NoCalls == [emergency |-> 0, adaptive |-> 0]
NoDetection == [has_emergency |-> FALSE, approach |-> None, distance |-> None]
NoVehicle == [distance |-> 0, speed |-> 0, seen100 |-> FALSE, seen80 |-> FALSE,
              seen5 |-> FALSE]
InjectDistance == 120

\* Requests made of a stand-alone validator
MaxRequests == 3
\* Time between two requests, in tenths of a second
RequestGaps == {0, 30, 49, 50, 51}

\* A run of many updates in little time: end of the run, the update intervals
\* (several updates may fall within one second) and the cap on the wait timers
MaxTimeStarvation == 16
StarvationDts == {0, 1}
MaxWaitTicks == 903
ThroughPhases == {"NS_THROUGH", "EW_THROUGH"}

\* Green-time planning: end of the run, the configurations and the demand
\* levels of an approach (empty; moving vehicles only; a short queue; a queue
\* that asks for more than max_green)
MaxTimePlanning == 16
PlanningMinGreens == {3, 10}
PlanningMaxGreens == {12, 60}
PlanningDemand == {[total_queue_length |-> 0, total_vehicles |-> 0],
                   [total_queue_length |-> 0, total_vehicles |-> 3],
                   [total_queue_length |-> 84, total_vehicles |-> 6],
                   [total_queue_length |-> 1050, total_vehicles |-> 150]}
\* N and E report one level, S and W another
PlanningMetrics ==
    {[a \in {"N", "S", "E", "W"} |-> IF a \in {"N", "E"} THEN x ELSE y] :
        x \in PlanningDemand, y \in PlanningDemand}

\* A stand-alone tracker: end of the run, number of updates, the intervals
\* between updates (11 s lets the cleanup timeout pass) and the vehicles fed
MaxTimeTracker == 13
MaxUpdates == 4
TrackerDts == {1, 5, 11}

TrackedVehicle(track_id, lane_id, distance, velocity) ==
    [track_id |-> track_id, lane_id |-> lane_id,
     distance_to_stop_line |-> distance, velocity |-> velocity,
     is_emergency |-> FALSE]

\* Vehicle 1: stopped (0.4 m/s) or moving (0.5 m/s) in lane N_in_0, stopped
\* with no lane, or stopped in a lane that is not configured
Vehicle1Reports ==
    {TrackedVehicle(1, Some(N_in_0), 10, << 0, 4 >>),
     TrackedVehicle(1, Some(N_in_0), 10, << 3, 4 >>),
     TrackedVehicle(1, None, -1, << 0, 4 >>),
     TrackedVehicle(1, Some(W_in_0), 10, << 0, 4 >>)}
\* Vehicle 2: standing in lane N_in_0 beyond the queue zone or at its far
\* edge, or in lane E_in_0
Vehicle2Reports ==
    {TrackedVehicle(2, Some(N_in_0), 40, << 0, 0 >>),
     TrackedVehicle(2, Some(N_in_0), 30, << 0, 0 >>),
     TrackedVehicle(2, Some(E_in_0), 20, << 0, 0 >>)}
TrackerFeeds ==
    {<< >>} \cup {<< a >> : a \in Vehicle1Reports}
            \cup {<< b >> : b \in Vehicle2Reports}
            \cup {<< a, b >> : a \in Vehicle1Reports, b \in Vehicle2Reports}

\* Emergency vehicles on two approaches at once: end of the run, the intervals
\* between updates and the vehicles reported (in N_in_0 at the stop line, 40 m
\* or 100 m from it; in E_in_0 3 m or 60 m from it), up to three at a time
MaxTimeRivals == 19
RivalDts == {1, 5}
RivalVehicle(lane_id, distance) ==
    [lane_id |-> lane_id, distance_to_stop_line |-> distance, is_emergency |-> TRUE]
RivalVehicles ==
    {RivalVehicle(N_in_0, 0), RivalVehicle(N_in_0, 40), RivalVehicle(N_in_0, 100),
     RivalVehicle(E_in_0, 3), RivalVehicle(E_in_0, 60)}
RivalFeeds == FeedsUpTo(RivalVehicles, 3)

\* Construction of PerceivedVehicle records: the end of the run and the field
\* values a perception source hands to the constructor (confidence in tenths;
\* track_id_is_int tells whether the track id is an int)
MaxTimeConstruction == 3
CandidateRecords ==
    [track_id : {1}, track_id_is_int : BOOLEAN,
     confidence_x10 : {-1, 0, 10, 11},
     lane_id : {None, Some(N_in_0)},
     distance_to_stop_line : {-1, 0, 10},
     velocity : {<< 0, 0 >>, << 3, 4 >>},
     is_emergency : {FALSE}]

\* PerceivedVehicle.__post_init__: "ok", or the exception raised
post_init(v) ==
    IF ~(0 <= v.confidence_x10 /\ v.confidence_x10 <= 10) THEN "ValueError"
    ELSE IF ~v.track_id_is_int THEN "TypeError"
    ELSE IF IsNone(v.lane_id) /\ v.distance_to_stop_line # -1 THEN "ValueError"
    ELSE "ok"

NoPlan == None

\* A run of the emergency FSM that goes on until the horizon: the end of the
\* run, the vehicles reported, the longest interval between two updates, the
\* time the FSM needs from CLEARING, and from any state once no emergency
\* vehicle is reported, to be back in NORMAL, and the time from which the
\* feed is looked at for being quiet
MaxTimeLive == 30
LiveVehicles == {v \in EmergencyVehicles : v.distance_to_stop_line \in {5, 80, 100}}
LiveFeeds == {{}} \cup {{v} : v \in LiveVehicles}
MaxDt == CHOOSE d \in Dts : \A x \in Dts : x <= d
ClearingSettle == (CLEARANCE_TIME + MaxDt - 1) + (COOLDOWN_TIME + MaxDt - 1)
QuietSettle == (MaxDt - 1) + ClearingSettle
QuietFrom == MaxTimeLive - QuietSettle

\* Episodes of a controller, a reset between them: end of an episode, the
\* intervals between updates and the feeds of the integrated controller (no
\* vehicle, or an emergency vehicle 80 m or 5 m from the stop line of E_in_0)
MaxTimeEpisode == 16
EpisodeDts == {1, 5}
EpisodeFeeds ==
    {{}} \cup {{v} : v \in {w \in EmergencyVehicles :
                               /\ w.lane_id = E_in_0
                               /\ w.distance_to_stop_line \in {5, 80}}}
QueryMethods == {"get_signal_command", "is_active", "get_state_info"}

\* The controllers constructed at a reset, with the configuration of the
\* controllers that were reset
FreshControllers ==
    [fixed |-> FixedInit(fixed.ns_green_time, fixed.ew_green_time),
     adaptive |-> AdaptiveInit(adaptive.min_green, adaptive.max_green,
                               adaptive.saturation_flow_x10),
     emergency |-> EmergencyInit,
     in_emergency_mode |-> FALSE,
     out |-> << >>]

\* A state estimator: end of the run, number of updates, the intervals between
\* updates and the vehicles fed
MaxTimeEstimator == 7
MaxEstimatorUpdates == 3
EstimatorDts == {0, 1, 5}

\* Vehicle 1 in lane N_in_0: standing 10 m from the stop line, or an emergency
\* vehicle driving 80 m from it
EstimatorVehicle1 ==
    {TrackedVehicle(1, Some(N_in_0), 10, << 0, 0 >>),
     [TrackedVehicle(1, Some(N_in_0), 80, << 0, 100 >>) EXCEPT !.is_emergency = TRUE]}
\* Vehicle 2: an emergency vehicle standing 20 m from the stop line of E_in_0,
\* or a vehicle standing 30 m from the stop line of N_in_0
EstimatorVehicle2 ==
    {[TrackedVehicle(2, Some(E_in_0), 20, << 0, 0 >>) EXCEPT !.is_emergency = TRUE],
     TrackedVehicle(2, Some(N_in_0), 30, << 0, 0 >>)}
EstimatorFeeds ==
    {<< >>} \cup {<< a >> : a \in EstimatorVehicle1}
            \cup {<< b >> : b \in EstimatorVehicle2}
            \cup {<< a, b >> : a \in EstimatorVehicle1, b \in EstimatorVehicle2}

---------------------------------------------------------------------------
(* Initial states *)

InitCommon ==
    /\ now = 0
    /\ op = "init"
    /\ emergency = EmergencyInit
    /\ in_emergency_mode = FALSE
    /\ out = << >>
    /\ calls = NoCalls
    /\ hist = HistInit
    /\ detected = NoDetection
    /\ validator = ValidatorInit
    /\ tracker = LaneStateTrackerInit
    /\ plan = NoPlan
    /\ estimator = TrafficStateEstimatorInit(TRUE)
    /\ istate = None
    /\ answer = None
    /\ fresh = None

\* The controllers a run does not drive stay as constructed
InitIdle ==
    /\ adaptive = AdaptiveInit(INTEGRATED_MIN_GREEN, INTEGRATED_MAX_GREEN,
                               INTEGRATED_SATURATION_X10)
    /\ fixed = FixedInit(10, 10)
    /\ feed = {}
    /\ ev = NoVehicle

InitEmergency ==
    /\ sut = "emergency"
    /\ InitCommon
    /\ adaptive = AdaptiveInit(INTEGRATED_MIN_GREEN, INTEGRATED_MAX_GREEN,
                               INTEGRATED_SATURATION_X10)
    /\ fixed = FixedInit(10, 10)
    /\ feed = {}
    /\ ev = NoVehicle

InitIntegrated ==
    /\ sut = "integrated"
    /\ InitCommon
    /\ adaptive = AdaptiveInit(INTEGRATED_MIN_GREEN, INTEGRATED_MAX_GREEN,
                               INTEGRATED_SATURATION_X10)
    /\ fixed = FixedInit(10, 10)
    /\ feed = {}
    /\ ev = NoVehicle

InitControllers ==
    /\ InitCommon
    /\ \/ /\ sut = "fixed"
          /\ \E ns \in GreenTimes, ew \in GreenTimes : fixed = FixedInit(ns, ew)
          /\ adaptive = AdaptiveInit(INTEGRATED_MIN_GREEN, INTEGRATED_MAX_GREEN,
                                     INTEGRATED_SATURATION_X10)
       \/ /\ sut = "adaptive"
          /\ \E g \in GreenTimes :
                adaptive = AdaptiveInit(g, INTEGRATED_MAX_GREEN,
                                        INTEGRATED_SATURATION_X10)
          /\ fixed = FixedInit(10, 10)
    /\ feed = {}
    /\ ev = NoVehicle

InitDetect ==
    /\ sut = "detect"
    /\ InitCommon
    /\ adaptive = AdaptiveInit(INTEGRATED_MIN_GREEN, INTEGRATED_MAX_GREEN,
                               INTEGRATED_SATURATION_X10)
    /\ fixed = FixedInit(10, 10)
    /\ feed \in AllFeeds
    /\ ev = NoVehicle

InitScenario ==
    /\ sut = "scenario"
    /\ InitCommon
    /\ adaptive = AdaptiveInit(INTEGRATED_MIN_GREEN, INTEGRATED_MAX_GREEN,
                               INTEGRATED_SATURATION_X10)
    /\ fixed = FixedInit(10, 10)
    /\ feed = {}
    /\ \E speed \in 1..MaxSpeed :
          ev = [NoVehicle EXCEPT !.distance = InjectDistance, !.speed = speed]

InitStarvation ==
    /\ sut = "starvation"
    /\ InitCommon
    /\ InitIdle

InitPlanning ==
    /\ sut = "planning"
    /\ InitCommon
    /\ \E min_green \in PlanningMinGreens, max_green \in PlanningMaxGreens :
          adaptive = AdaptiveInit(min_green, max_green, INTEGRATED_SATURATION_X10)
    /\ fixed = FixedInit(10, 10)
    /\ feed = {}
    /\ ev = NoVehicle

InitTracker ==
    /\ sut = "tracker"
    /\ InitCommon
    /\ adaptive = AdaptiveInit(INTEGRATED_MIN_GREEN, INTEGRATED_MAX_GREEN,
                               INTEGRATED_SATURATION_X10)
    /\ fixed = FixedInit(10, 10)
    /\ feed = << >>
    /\ ev = NoVehicle

\* EmergencyPriorityController(), fed with emergency vehicles on two approaches
InitRivals ==
    /\ sut = "emergency_rivals"
    /\ InitCommon
    /\ adaptive = AdaptiveInit(INTEGRATED_MIN_GREEN, INTEGRATED_MAX_GREEN,
                               INTEGRATED_SATURATION_X10)
    /\ fixed = FixedInit(10, 10)
    /\ feed = {}
    /\ ev = NoVehicle

\* A perception source that constructs records and a tracker it feeds
InitConstruction ==
    /\ sut = "construction"
    /\ InitCommon
    /\ adaptive = AdaptiveInit(INTEGRATED_MIN_GREEN, INTEGRATED_MAX_GREEN,
                               INTEGRATED_SATURATION_X10)
    /\ fixed = FixedInit(10, 10)
    /\ feed = << >>
    /\ ev = NoVehicle

\* A FixedTimeController, an AdaptiveController or an
\* IntegratedSignalController run over episodes
InitEpisodes ==
    /\ sut \in {"fixed_episodes", "adaptive_episodes", "integrated_episodes"}
    /\ InitCommon
    /\ adaptive = AdaptiveInit(INTEGRATED_MIN_GREEN, INTEGRATED_MAX_GREEN,
                               INTEGRATED_SATURATION_X10)
    /\ fixed = FixedInit(10, 10)
    /\ feed = {}
    /\ ev = NoVehicle

\* EmergencyPriorityController(), updated for as long as the run lasts
InitLive ==
    /\ sut = "emergency_live"
    /\ InitCommon
    /\ adaptive = AdaptiveInit(INTEGRATED_MIN_GREEN, INTEGRATED_MAX_GREEN,
                               INTEGRATED_SATURATION_X10)
    /\ fixed = FixedInit(10, 10)
    /\ feed = {}
    /\ ev = NoVehicle

\* TrafficStateEstimator(lane_ids, enable_smoothing), either setting
InitEstimator ==
    /\ sut = "estimator"
    /\ now = 0
    /\ op = "init"
    /\ emergency = EmergencyInit
    /\ in_emergency_mode = FALSE
    /\ out = << >>
    /\ calls = NoCalls
    /\ hist = HistInit
    /\ detected = NoDetection
    /\ validator = ValidatorInit
    /\ tracker = LaneStateTrackerInit
    /\ plan = NoPlan
    /\ \E enable_smoothing \in BOOLEAN :
          estimator = TrafficStateEstimatorInit(enable_smoothing)
    /\ istate = None
    /\ answer = None
    /\ fresh = None
    /\ adaptive = AdaptiveInit(INTEGRATED_MIN_GREEN, INTEGRATED_MAX_GREEN,
                               INTEGRATED_SATURATION_X10)
    /\ fixed = FixedInit(10, 10)
    /\ feed = << >>
    /\ ev = NoVehicle

InitValidator ==
    /\ sut = "validator"
    /\ InitCommon
    /\ InitIdle

Init == InitEmergency \/ InitIntegrated \/ InitControllers \/ InitDetect \/ InitScenario
            \/ InitValidator \/ InitStarvation \/ InitPlanning \/ InitTracker
            \/ InitEstimator \/ InitLive \/ InitEpisodes \/ InitConstruction
            \/ InitRivals

---------------------------------------------------------------------------
(* Actions: one per call *)

\* EmergencyPriorityController.update(state, now + dt)
EmergencyUpdate ==
    /\ sut = "emergency"
    /\ \E dt \in Dts, f \in EmergencyFeeds :
          /\ now + dt <= MaxTimeEmergency
          /\ now' = now + dt
          /\ \E e1 \in {emergency_update(emergency, estimator_update(f, NoDemand),
                                        now + dt)} :
                 /\ emergency' = e1
                 /\ hist' = ObserveEmergency(hist, emergency, e1, now + dt)
    /\ op' = "update"
    /\ UNCHANGED << sut, in_emergency_mode, adaptive, fixed, out, calls, feed,
                    detected, ev,
                    validator, tracker, plan, estimator, istate, answer,
                    fresh >>

\* EmergencyPriorityController.reset(), at the start of a new episode
EmergencyReset ==
    /\ sut = "emergency"
    /\ hist.resets < MaxResets
    /\ emergency' = emergency_reset(emergency)
    /\ now' = 0
    /\ op' = "reset"
    /\ hist' = [HistInit EXCEPT !.resets = hist.resets + 1]
    /\ UNCHANGED << sut, in_emergency_mode, adaptive, fixed, out, calls, feed,
                    detected, ev,
                    validator, tracker, plan, estimator, istate, answer,
                    fresh >>

\* FixedTimeController.update(state, now + dt)
FixedUpdate ==
    /\ sut = "fixed"
    /\ \E dt \in Dts :
          /\ now + dt <= MaxTime
          /\ now' = now + dt
          /\ \E r \in {fixed_update(fixed, now + dt)} :
                 /\ fixed' = r.c
                 /\ out' = r.out
                 /\ hist' = ObserveDisplay(
                                ObserveAttempt(ObserveOut(hist, r.out),
                                               fixed_transition_due(fixed, now + dt),
                                               r.c, now + dt),
                                out, r.out, now + dt)
    /\ op' = "update"
    /\ UNCHANGED << sut, emergency, in_emergency_mode, adaptive, calls, feed,
                    detected, ev,
                    validator, tracker, plan, estimator, istate, answer,
                    fresh >>

\* FixedTimeController.reset(), at the start of a new episode
FixedReset ==
    /\ sut = "fixed"
    /\ hist.resets < MaxResets
    /\ fixed' = fixed_reset(fixed)
    /\ now' = 0
    /\ op' = "reset"
    /\ out' = << >>
    /\ hist' = [HistInit EXCEPT !.resets = hist.resets + 1]
    /\ UNCHANGED << sut, emergency, in_emergency_mode, adaptive, calls, feed,
                    detected, ev,
                    validator, tracker, plan, estimator, istate, answer,
                    fresh >>

\* AdaptiveController.update(state, now + dt)
AdaptiveUpdate ==
    /\ sut = "adaptive"
    /\ \E dt \in Dts, am \in ApproachMetrics :
          /\ now + dt <= MaxTime
          /\ now' = now + dt
          /\ \E r \in {adaptive_update(adaptive, am, now + dt)} :
                 /\ adaptive' = r.c
                 /\ out' = r.out
                 /\ hist' = ObserveDisplay(
                                ObserveAttempt(ObserveOut(hist, r.out),
                                               adaptive_transition_due(adaptive, now + dt),
                                               r.c, now + dt),
                                out, r.out, now + dt)
    /\ op' = "update"
    /\ UNCHANGED << sut, emergency, in_emergency_mode, fixed, calls, feed,
                    detected, ev,
                    validator, tracker, plan, estimator, istate, answer,
                    fresh >>

\* AdaptiveController.reset(), at the start of a new episode
AdaptiveReset ==
    /\ sut = "adaptive"
    /\ hist.resets < MaxResets
    /\ adaptive' = adaptive_reset(adaptive)
    /\ now' = 0
    /\ op' = "reset"
    /\ out' = << >>
    /\ hist' = [HistInit EXCEPT !.resets = hist.resets + 1]
    /\ UNCHANGED << sut, emergency, in_emergency_mode, fixed, calls, feed,
                    detected, ev,
                    validator, tracker, plan, estimator, istate, answer,
                    fresh >>

\* IntegratedSignalController.update(state, now + dt)
IntegratedUpdate ==
    /\ sut = "integrated"
    /\ \E dt \in Dts, f \in IntegratedFeeds, am \in {NoDemand, FullDemand} :
          /\ now + dt <= MaxTimeIntegrated
          /\ now' = now + dt
          /\ \E r \in {integrated_update(emergency, adaptive, in_emergency_mode,
                                         estimator_update(f, am), now + dt)} :
                 /\ emergency' = r.emergency
                 /\ adaptive' = r.adaptive
                 /\ in_emergency_mode' = r.in_emergency_mode
                 /\ out' = r.out
                 /\ calls' = r.calls
                 /\ hist' = ObserveOut(ObserveEmergency(hist, emergency, r.emergency,
                                                        now + dt), r.out)
    /\ op' = "update"
    /\ UNCHANGED << sut, fixed, feed, detected, ev,
                    validator, tracker, plan, estimator, istate, answer,
                    fresh >>

\* IntegratedSignalController.reset(), at the start of a new episode
IntegratedReset ==
    /\ sut = "integrated"
    /\ hist.resets < MaxResets
    /\ adaptive' = adaptive_reset(adaptive)
    /\ emergency' = emergency_reset(emergency)
    /\ in_emergency_mode' = FALSE
    /\ now' = 0
    /\ op' = "reset"
    /\ out' = << >>
    /\ calls' = NoCalls
    /\ hist' = [HistInit EXCEPT !.resets = hist.resets + 1]
    /\ UNCHANGED << sut, fixed, feed, detected, ev,
                    validator, tracker, plan, estimator, istate, answer,
                    fresh >>

\* _detect_emergency applied to the IntersectionState estimated from the feed
Detect ==
    /\ sut = "detect"
    /\ op = "init"
    /\ detected' = detect_emergency(estimator_update(feed, NoDemand))
    /\ op' = "update"
    /\ UNCHANGED << sut, now, emergency, in_emergency_mode, adaptive, fixed, out,
                    calls, hist, feed, ev,
                    validator, tracker, plan, estimator, istate, answer,
                    fresh >>

\* One tick of the approach scenario: the vehicle closes in by its speed and
\* the emergency FSM is updated with the feed that holds it
ScenarioTick ==
    /\ sut = "scenario"
    /\ now + 1 <= MaxTime
    /\ now' = now + 1
    /\ LET distance == ev.distance - ev.speed
           f == {[lane_id |-> N_in_0, distance_to_stop_line |-> distance,
                  is_emergency |-> TRUE]}
           e1 == emergency_update(emergency, estimator_update(f, NoDemand), now + 1)
       IN  /\ emergency' = e1
           /\ ev' = [ev EXCEPT !.distance = distance,
                               !.seen100 = ev.seen100 \/ distance <= DETECTION_THRESHOLD,
                               !.seen80 = ev.seen80 \/ distance <= PREEMPTION_THRESHOLD,
                               !.seen5 = ev.seen5 \/ distance <= CLEARING_DISTANCE]
           /\ hist' = ObserveEmergency(hist, emergency, e1, now + 1)
    /\ op' = "update"
    /\ UNCHANGED << sut, in_emergency_mode, adaptive, fixed, out, calls, feed,
                    detected,
                    validator, tracker, plan, estimator, istate, answer,
                    fresh >>

\* AdaptiveController.update(state, now + dt) of a controller updated many
\* times per second
StarvationUpdate ==
    /\ sut = "starvation"
    /\ \A p \in ThroughPhases : adaptive.phase_wait_times[p] < MaxWaitTicks
    /\ \E dt \in StarvationDts, am \in {NoDemand, FullDemand} :
          /\ now + dt <= MaxTimeStarvation
          /\ now' = now + dt
          /\ \E r \in {adaptive_update(adaptive, am, now + dt)} :
                 /\ adaptive' = r.c
                 /\ out' = r.out
                 /\ hist' = ObserveSelection(
                                ObserveAttempt(ObserveOut(hist, r.out),
                                    adaptive_transition_due(adaptive, now + dt),
                                    r.c, now + dt),
                                adaptive_transition_due(adaptive, now + dt), adaptive)
    /\ op' = "update"
    /\ UNCHANGED << sut, emergency, in_emergency_mode, fixed, calls, feed,
                    detected, ev, validator, tracker, plan, estimator, istate, answer,
                    fresh >>

\* AdaptiveController.update(state, now + dt) under varied demand; plan keeps
\* the approach metrics of an update that selected and planned a next phase
PlanningUpdate ==
    /\ sut = "planning"
    /\ \E dt \in Dts, am \in PlanningMetrics :
          /\ now + dt <= MaxTimePlanning
          /\ now' = now + dt
          /\ \E r \in {adaptive_update(adaptive, am, now + dt)} :
                 /\ adaptive' = r.c
                 /\ out' = r.out
                 /\ hist' = ObserveAttempt(ObserveOut(hist, r.out),
                                           adaptive_transition_due(adaptive, now + dt),
                                           r.c, now + dt)
          /\ plan' = IF adaptive_transition_due(adaptive, now + dt) THEN Some(am)
                     ELSE None
    /\ op' = "update"
    /\ UNCHANGED << sut, emergency, in_emergency_mode, fixed, calls, feed,
                    detected, ev, validator, tracker, estimator, istate, answer,
                    fresh >>

\* LaneStateTracker.update(vehicles, now + dt)
TrackerUpdate ==
    /\ sut = "tracker"
    /\ tracker.state_history_len[1] < MaxUpdates
    /\ \E dt \in TrackerDts, vehicles \in TrackerFeeds :
          /\ now + dt <= MaxTimeTracker
          /\ now' = now + dt
          /\ tracker' = lane_state_tracker_update(tracker, vehicles, now + dt)
          /\ feed' = vehicles
          /\ hist' = ObserveRuns(hist, vehicles, now + dt)
    /\ op' = "update"
    /\ UNCHANGED << sut, emergency, in_emergency_mode, adaptive, fixed, out, calls,
                    detected, ev, validator, plan, estimator, istate, answer,
                    fresh >>

\* EmergencyPriorityController.update(state, now + dt), the state being the
\* estimator's for the vehicles reported on this tick
RivalsUpdate ==
    /\ sut = "emergency_rivals"
    /\ \E dt \in RivalDts, f \in RivalFeeds :
          /\ now + dt <= MaxTimeRivals
          /\ now' = now + dt
          /\ feed' = f
          /\ \E e1 \in {emergency_update(emergency, estimator_update(f, NoDemand),
                                        now + dt)} :
                 /\ emergency' = e1
                 /\ hist' = ObserveEmergency(hist, emergency, e1, now + dt)
    /\ op' = "update"
    /\ UNCHANGED << sut, in_emergency_mode, adaptive, fixed, out, calls,
                    detected, ev, validator, tracker, plan, estimator, istate, answer,
                    fresh >>

\* PerceivedVehicle(...) followed, when the constructor returns, by
\* LaneStateTracker.update([v], now + 1); an exception ends the tick before
\* the tracker is called
ConstructAndFeed ==
    /\ sut = "construction"
    /\ now + 1 <= MaxTimeConstruction
    /\ \E v \in CandidateRecords :
          /\ answer' = Some([outcome |-> post_init(v), record |-> v])
          /\ IF post_init(v) = "ok"
             THEN /\ tracker' = lane_state_tracker_update(tracker, << v >>, now + 1)
                  /\ feed' = << v >>
             ELSE /\ tracker' = tracker
                  /\ feed' = << >>
    /\ now' = now + 1
    /\ op' = "construct"
    /\ UNCHANGED << sut, emergency, in_emergency_mode, adaptive, fixed, out, calls,
                    hist, detected, ev, validator, plan, estimator, istate,
                    fresh >>

\* FixedTimeController.update(state, now + dt), and the same call on the
\* controller constructed at the reset
EpisodeFixedUpdate ==
    /\ sut = "fixed_episodes"
    /\ \E dt \in EpisodeDts :
          /\ now + dt <= MaxTimeEpisode
          /\ now' = now + dt
          /\ \E r \in {fixed_update(fixed, now + dt)} :
                 /\ fixed' = r.c
                 /\ out' = r.out
          /\ fresh' = IF IsNone(fresh) THEN None
                      ELSE LET q == fixed_update(Val(fresh).fixed, now + dt)
                           IN  Some([Val(fresh) EXCEPT !.fixed = q.c, !.out = q.out])
    /\ op' = "update"
    /\ answer' = None
    /\ UNCHANGED << sut, emergency, in_emergency_mode, adaptive, calls, hist, feed,
                    detected, ev, validator, tracker, plan, estimator, istate >>

\* FixedTimeController.reset(); the next episode starts at time 0
EpisodeFixedReset ==
    /\ sut = "fixed_episodes"
    /\ IsNone(fresh)
    /\ fixed' = fixed_reset(fixed)
    /\ fresh' = Some(FreshControllers)
    /\ now' = 0
    /\ op' = "reset"
    /\ out' = << >>
    /\ answer' = None
    /\ UNCHANGED << sut, emergency, in_emergency_mode, adaptive, calls, hist, feed,
                    detected, ev, validator, tracker, plan, estimator, istate >>

\* AdaptiveController.update(state, now + dt), and the same call on the
\* controller constructed at the reset
EpisodeAdaptiveUpdate ==
    /\ sut = "adaptive_episodes"
    /\ \E dt \in EpisodeDts :
          /\ now + dt <= MaxTimeEpisode
          /\ now' = now + dt
          /\ \E r \in {adaptive_update(adaptive, NoDemand, now + dt)} :
                 /\ adaptive' = r.c
                 /\ out' = r.out
          /\ fresh' = IF IsNone(fresh) THEN None
                      ELSE LET q == adaptive_update(Val(fresh).adaptive, NoDemand,
                                                    now + dt)
                           IN  Some([Val(fresh) EXCEPT !.adaptive = q.c, !.out = q.out])
    /\ op' = "update"
    /\ answer' = None
    /\ UNCHANGED << sut, emergency, in_emergency_mode, fixed, calls, hist, feed,
                    detected, ev, validator, tracker, plan, estimator, istate >>

\* AdaptiveController.reset(); the next episode starts at time 0
EpisodeAdaptiveReset ==
    /\ sut = "adaptive_episodes"
    /\ IsNone(fresh)
    /\ adaptive' = adaptive_reset(adaptive)
    /\ fresh' = Some(FreshControllers)
    /\ now' = 0
    /\ op' = "reset"
    /\ out' = << >>
    /\ answer' = None
    /\ UNCHANGED << sut, emergency, in_emergency_mode, fixed, calls, hist, feed,
                    detected, ev, validator, tracker, plan, estimator, istate >>

\* IntegratedSignalController.update(state, now + dt), and the same call on
\* the controller constructed at the reset
EpisodeIntegratedUpdate ==
    /\ sut = "integrated_episodes"
    /\ \E dt \in EpisodeDts, f \in EpisodeFeeds :
          /\ now + dt <= MaxTimeEpisode
          /\ now' = now + dt
          /\ \E r \in {integrated_update(emergency, adaptive, in_emergency_mode,
                                         estimator_update(f, NoDemand), now + dt)} :
                 /\ emergency' = r.emergency
                 /\ adaptive' = r.adaptive
                 /\ in_emergency_mode' = r.in_emergency_mode
                 /\ out' = r.out
                 /\ calls' = r.calls
          /\ fresh' = IF IsNone(fresh) THEN None
                      ELSE LET q == integrated_update(Val(fresh).emergency,
                                        Val(fresh).adaptive, Val(fresh).in_emergency_mode,
                                        estimator_update(f, NoDemand), now + dt)
                           IN  Some([Val(fresh) EXCEPT
                                        !.emergency = q.emergency,
                                        !.adaptive = q.adaptive,
                                        !.in_emergency_mode = q.in_emergency_mode,
                                        !.out = q.out])
    /\ op' = "update"
    /\ answer' = None
    /\ UNCHANGED << sut, fixed, hist, feed, detected, ev, validator, tracker, plan,
                    estimator, istate >>

\* IntegratedSignalController.reset(); the next episode starts at time 0
EpisodeIntegratedReset ==
    /\ sut = "integrated_episodes"
    /\ IsNone(fresh)
    /\ \E r \in {integrated_reset(emergency, adaptive, in_emergency_mode)} :
          /\ adaptive' = r.adaptive
          /\ emergency' = r.emergency
          /\ in_emergency_mode' = r.in_emergency_mode
    /\ fresh' = Some(FreshControllers)
    /\ now' = 0
    /\ op' = "reset"
    /\ out' = << >>
    /\ calls' = NoCalls
    /\ answer' = None
    /\ UNCHANGED << sut, fixed, hist, feed, detected, ev, validator, tracker, plan,
                    estimator, istate >>

\* get_signal_command(), is_active() or get_state_info() of the emergency
\* controller of the integrated controller
EmergencyQuery ==
    /\ sut = "integrated_episodes"
    /\ \E method \in QueryMethods :
          \E r \in {emergency_query(emergency, method)} :
              /\ answer' = Some(<< method, r.result >>)
              /\ emergency' = r.e
    /\ op' = "query"
    /\ UNCHANGED << sut, now, in_emergency_mode, adaptive, fixed, out, calls, hist,
                    feed, detected, ev, validator, tracker, plan, estimator, istate,
                    fresh >>

\* IntegratedSignalController.get_status()
IntegratedGetStatus ==
    /\ sut = "integrated_episodes"
    /\ \E r \in {integrated_get_status(emergency, in_emergency_mode)} :
          /\ answer' = Some(<< "get_status", r.result >>)
          /\ emergency' = r.emergency
          /\ in_emergency_mode' = r.in_emergency_mode
    /\ op' = "query"
    /\ UNCHANGED << sut, now, adaptive, fixed, out, calls, hist, feed, detected, ev,
                    validator, tracker, plan, estimator, istate, fresh >>

\* EmergencyPriorityController.update(state, now + dt), the feed kept
LiveEmergencyUpdate ==
    /\ sut = "emergency_live"
    /\ \E dt \in Dts, f \in LiveFeeds :
          /\ now + dt <= MaxTimeLive
          /\ now' = now + dt
          /\ feed' = f
          /\ \E e1 \in {emergency_update(emergency, estimator_update(f, NoDemand),
                                        now + dt)} :
                 /\ emergency' = e1
                 /\ hist' = ObserveEmergency(hist, emergency, e1, now + dt)
    /\ op' = "update"
    /\ UNCHANGED << sut, in_emergency_mode, adaptive, fixed, out, calls,
                    detected, ev, validator, tracker, plan, estimator, istate, answer,
                    fresh >>

\* TrafficStateEstimator.update(vehicles, now + dt)
EstimatorUpdate ==
    /\ sut = "estimator"
    /\ tracker.state_history_len[1] < MaxEstimatorUpdates
    /\ \E dt \in EstimatorDts, vehicles \in EstimatorFeeds :
          /\ now + dt <= MaxTimeEstimator
          /\ now' = now + dt
          /\ feed' = vehicles
          /\ \E r \in {state_estimator_update(estimator, tracker, vehicles, now + dt)} :
                /\ estimator' = r.est
                /\ tracker' = r.tr
                /\ istate' = Some(r.state)
    /\ op' = "update"
    /\ UNCHANGED << sut, emergency, in_emergency_mode, adaptive, fixed, out, calls,
                    hist, detected, ev, validator, plan, answer,
                    fresh >>

\* validate_transition(current_phase, next_phase, time + gap) on the stand-alone
\* validator, recorded with record_transition when accepted
ValidatorRequest ==
    /\ sut = "validator"
    /\ validator.n < MaxRequests
    /\ \E gap \in RequestGaps, current_phase \in ThroughPhases,
          next_phase \in ThroughPhases :
          validator' = validator_request(validator, current_phase, next_phase,
                                         validator.time + gap)
    /\ op' = "request"
    /\ UNCHANGED << sut, now, emergency, in_emergency_mode, adaptive, fixed, out,
                    calls, hist, feed, detected, ev, tracker, plan, estimator, istate, answer,
                    fresh >>

---------------------------------------------------------------------------
(* Specifications *)

NextEmergency == EmergencyUpdate \/ EmergencyReset
NextControllers == FixedUpdate \/ AdaptiveUpdate
NextIntegrated == IntegratedUpdate
NextResets == FixedReset \/ AdaptiveReset \/ IntegratedReset
NextDetect == Detect
NextScenario == ScenarioTick
NextValidator == ValidatorRequest
NextStarvation == StarvationUpdate
NextPlanning == PlanningUpdate
NextTracker == TrackerUpdate
NextEstimator == EstimatorUpdate
NextLive == LiveEmergencyUpdate
NextConstruction == ConstructAndFeed
NextRivals == RivalsUpdate
NextEpisodes == EpisodeFixedUpdate \/ EpisodeFixedReset \/ EpisodeAdaptiveUpdate
                    \/ EpisodeAdaptiveReset \/ EpisodeIntegratedUpdate
                    \/ EpisodeIntegratedReset \/ EmergencyQuery
                    \/ IntegratedGetStatus

Next == NextEmergency \/ NextControllers \/ NextIntegrated \/ NextResets
            \/ NextDetect \/ NextScenario \/ NextValidator
            \/ NextStarvation \/ NextPlanning \/ NextTracker \/ NextEstimator
            \/ NextLive \/ NextEpisodes \/ NextConstruction
            \/ NextRivals

Spec == Init /\ [][Next]_vars
SpecEmergency == InitEmergency /\ [][NextEmergency]_vars
SpecControllers == InitControllers /\ [][NextControllers]_vars
SpecIntegrated == InitIntegrated /\ [][NextIntegrated]_vars
SpecDetect == InitDetect /\ [][NextDetect]_vars
SpecScenario == InitScenario /\ [][NextScenario]_vars
SpecValidator == InitValidator /\ [][NextValidator]_vars
SpecStarvation == InitStarvation /\ [][NextStarvation]_vars
SpecPlanning == InitPlanning /\ [][NextPlanning]_vars
SpecTracker == InitTracker /\ [][NextTracker]_vars
SpecEstimator == InitEstimator /\ [][NextEstimator]_vars
SpecEpisodes == InitEpisodes /\ [][NextEpisodes]_vars
SpecConstruction == InitConstruction /\ [][NextConstruction]_vars
SpecRivals == InitRivals /\ [][NextRivals]_vars
\* update keeps being called, with a later time at each call, until the horizon
SpecLive == InitLive /\ [][NextLive]_vars /\ WF_vars(LiveEmergencyUpdate)

---------------------------------------------------------------------------
(* Claims *)

\* C1: on every IntegratedSignalController.update the emergency FSM is updated
\* once; if it is then active, the returned string is the green string of the
\* forced emergency phase and the adaptive controller is neither called nor
\* changed; otherwise the adaptive controller is updated exactly once and its
\* string is returned unmodified.  Exactly one of the two decides the output.
C1_MutualExclusion ==
    [][op' = "update" =>
        /\ calls'.emergency = 1
        /\ is_active(emergency') =>
              /\ calls'.adaptive = 0
              /\ adaptive' = adaptive
              /\ emergency'.emergency_phase \in {"EMERGENCY_NS", "EMERGENCY_EW"}
              /\ out' = get_phase(emergency'.emergency_phase).sumo_state_green
        /\ ~is_active(emergency') =>
              /\ calls'.adaptive = 1
              /\ \E am \in {NoDemand, FullDemand} :
                    LET r == adaptive_update(adaptive, am, now')
                    IN  adaptive' = r.c /\ out' = r.out
    ]_vars

\* C1 witness: an override returns the E/W emergency green while the adaptive
\* controller, untouched, is in the middle of a transition away from N/S green
C1_Witness ==
    /\ sut = "integrated" /\ op = "update"
    /\ is_active(emergency) /\ calls.adaptive = 0
    /\ out = GREEN_EW
    /\ adaptive.in_transition /\ adaptive.current_phase = "NS_THROUGH"

FsmEdges == {<< "NORMAL", "DETECTED" >>, << "DETECTED", "NORMAL" >>,
             << "DETECTED", "PREEMPTING" >>, << "PREEMPTING", "CLEARING" >>,
             << "CLEARING", "COOLDOWN" >>, << "COOLDOWN", "NORMAL" >>}

\* C2: every EmergencyPriorityController.update leaves the FSM state unchanged
\* or moves it along one edge of the cycle NORMAL -> DETECTED -> PREEMPTING ->
\* CLEARING -> COOLDOWN -> NORMAL (or DETECTED -> NORMAL); from PREEMPTING the
\* next state is PREEMPTING or CLEARING.
C2_FsmEdges ==
    [][op' = "update" =>
        /\ \/ emergency'.state = emergency.state
           \/ << emergency.state, emergency'.state >> \in FsmEdges
        /\ emergency.state = "PREEMPTING" =>
              emergency'.state \in {"PREEMPTING", "CLEARING"}
    ]_vars

\* C2 witness: an update has just moved the FSM out of PREEMPTING because the
\* vehicle was no longer reported
C2_Witness ==
    /\ sut = "emergency" /\ op = "update"
    /\ emergency.state = "CLEARING"
    /\ hist.since = Some(now)
    /\ Val(emergency.emergency_distance) > CLEARING_DISTANCE

\* C3: in every state reached by update and reset calls, get_signal_command()
\* is (True, EMERGENCY_NS or EMERGENCY_EW) exactly in PREEMPTING and CLEARING
\* and (False, None) in NORMAL, DETECTED and COOLDOWN.
C3_SignalCommand ==
    LET command == get_signal_command(emergency)
    IN  /\ emergency.state \in EmergencyState
        /\ emergency.state \in {"PREEMPTING", "CLEARING"} =>
              /\ command[1] = TRUE
              /\ command[2] \in {"EMERGENCY_NS", "EMERGENCY_EW"}
        /\ emergency.state \in {"NORMAL", "DETECTED", "COOLDOWN"} =>
              command = << FALSE, "None" >>

\* C3 witness: after a reset the FSM is again in CLEARING with a forced phase
C3_Witness ==
    /\ sut = "emergency" /\ hist.resets = 1
    /\ emergency.state = "CLEARING"
    /\ emergency.emergency_phase = "EMERGENCY_EW"

\* C4: in the strings returned by IntegratedSignalController.update, a green
\* for one axis (N/S or E/W) is never followed by a green for the other axis
\* unless a yellow string and then an all-red string were returned in between,
\* also where the emergency override starts and ends.
C4_ClearanceBetweenGreens ==
    [][(op' = "update" /\ IsGreen(out') /\ hist.axis \notin {"none", Axis(out')})
          => hist.r
    ]_vars

YellowOf(s) == IF s = GREEN_NS THEN YELLOW_NS ELSE YELLOW_EW
OtherGreen(axis) == IF axis = "NS" THEN GREEN_EW ELSE GREEN_NS

\* C5: for FixedTimeController and AdaptiveController on their own, whatever
\* the interval between ticks, a green string is followed by itself or by the
\* yellow string of the same phase, a yellow string by itself or by the all-red
\* string, and the all-red string by itself or by the green of the next phase:
\* green is never returned directly after green or yellow of the previous phase.
C5_YellowThenAllRed ==
    [][(op' = "update" /\ out # << >>) =>
        /\ IsGreen(out) => out' \in {out, YellowOf(out)}
        /\ IsYellow(out) => out' \in {out, ALL_RED}
        /\ out = ALL_RED => out' \in {ALL_RED, OtherGreen(hist.axis)}
    ]_vars

\* The controller a stand-alone run drives
Controller == IF sut = "fixed" THEN fixed ELSE adaptive
ControllerNext == IF sut = "fixed" THEN fixed' ELSE adaptive'

\* C6: a FixedTimeController or AdaptiveController never begins a transition
\* (never starts returning yellow) less than MIN_PHASE_GAP after its last
\* completed phase change, for any configured green time, so that two phase
\* changes are never completed less than MIN_PHASE_GAP apart.
C6_MinimumGap ==
    [][op' = "update" =>
        /\ (~Controller.in_transition /\ ControllerNext.in_transition)
              => now' - Controller.last_phase_change >= MIN_PHASE_GAP
        /\ (~IsYellow(out) /\ IsYellow(out'))
              => now' - Controller.last_phase_change >= MIN_PHASE_GAP
        /\ ControllerNext.current_phase # Controller.current_phase
              => /\ now' - Controller.last_phase_change >= MIN_PHASE_GAP
                 /\ ControllerNext.last_phase_change = now'
    ]_vars

\* C6 witness: a fixed-time controller configured with green times below the gap
\* has completed one phase change and begun the next transition
C6_Witness ==
    /\ sut = "fixed" /\ op = "update"
    /\ fixed.ns_green_time < MIN_PHASE_GAP /\ fixed.ew_green_time < MIN_PHASE_GAP
    /\ fixed.last_phase_change > 0
    /\ fixed.in_transition /\ IsYellow(out)

\* C7: the output of IntegratedSignalController never switches to an emergency
\* phase less than 2 s after the last recorded phase change of its normal
\* controller: every override passes check_emergency_override_safe.
C7_OverrideRespectsGap ==
    [][(op' = "update" /\ ~is_active(emergency) /\ is_active(emergency'))
          => check_emergency_override_safe(adaptive.last_phase_change, now')
    ]_vars

\* The scenario's vehicle is reported to the FSM with a positive distance
Reported(distance) == distance > 0

\* C8: for one emergency vehicle injected at 120 m and closing in at a
\* constant speed, NORMAL -> DETECTED happens on the first update with
\* distance <= 100 m, DETECTED -> PREEMPTING on the first update with
\* distance <= 80 m, and PREEMPTING -> CLEARING on the first update with
\* distance <= 5 m or the vehicle no longer reported.
C8_TransitionAtFirstCrossing ==
    [][op' = "update" =>
        /\ (~ev.seen100 /\ ev'.seen100)
              => (emergency.state = "NORMAL" /\ emergency'.state = "DETECTED")
        /\ (~ev.seen80 /\ ev'.seen80)
              => (emergency.state = "DETECTED" /\ emergency'.state = "PREEMPTING")
        /\ (~ev.seen5 /\ ev'.seen5)
              => (emergency.state = "PREEMPTING" /\ emergency'.state = "CLEARING")
    ]_vars

\* C8 as amended: the FSM takes one edge per update.  NORMAL -> DETECTED
\* happens on the first update with distance <= 100 m; from DETECTED the FSM
\* goes to PREEMPTING on the first later update with a reported distance
\* <= 80 m (back to NORMAL if the vehicle is no longer reported), and from
\* PREEMPTING to CLEARING on the first later update with distance <= 5 m or
\* the vehicle no longer reported; until then the state is kept.
C8_TransitionOnePerUpdate ==
    [][op' = "update" =>
        /\ (~ev.seen100 /\ ev'.seen100 /\ Reported(ev'.distance))
              => (emergency.state = "NORMAL" /\ emergency'.state = "DETECTED")
        /\ (emergency.state = "NORMAL" /\ ev'.distance > DETECTION_THRESHOLD)
              => emergency'.state = "NORMAL"
        /\ emergency.state = "DETECTED" =>
              emergency'.state =
                  IF ~Reported(ev'.distance) THEN "NORMAL"
                  ELSE IF ev'.distance <= PREEMPTION_THRESHOLD THEN "PREEMPTING"
                  ELSE "DETECTED"
        /\ emergency.state = "PREEMPTING" =>
              emergency'.state =
                  IF ~Reported(ev'.distance) \/ ev'.distance <= CLEARING_DISTANCE
                  THEN "CLEARING" ELSE "PREEMPTING"
    ]_vars

\* C8 witness: the vehicle, still reported, has come within the clearing
\* distance and the FSM has gone through DETECTED and PREEMPTING to CLEARING
C8_Witness ==
    /\ sut = "scenario" /\ op = "update"
    /\ emergency.state = "CLEARING"
    /\ Reported(ev.distance) /\ ev.distance <= CLEARING_DISTANCE
    /\ hist.since = Some(now)

\* C9: after entering CLEARING at tc the FSM is CLEARING at every update with
\* now - tc < 5 s and moves to COOLDOWN on the first update with now - tc >= 5 s;
\* after entering COOLDOWN at td it moves to NORMAL on the first update with
\* now - td >= 10 s and not earlier, whatever vehicles are reported; so an
\* override that stopped being active is not active again within 10 s.
C9_ClearingAndCooldown ==
    [][op' = "update" =>
        /\ emergency.state = "CLEARING" =>
              emergency'.state =
                  IF now' - Val(hist.since) >= CLEARANCE_TIME THEN "COOLDOWN"
                  ELSE "CLEARING"
        /\ emergency.state = "COOLDOWN" =>
              emergency'.state =
                  IF now' - Val(hist.since) >= COOLDOWN_TIME THEN "NORMAL"
                  ELSE "COOLDOWN"
        /\ (~is_active(emergency) /\ is_active(emergency') /\ ~IsNone(hist.deact))
              => now' - Val(hist.deact) >= COOLDOWN_TIME
    ]_vars

\* C9 witness: the override is active again after a complete clearing and
\* cooldown of an earlier one
C9_Witness ==
    /\ sut = "emergency" /\ op = "update"
    /\ is_active(emergency)
    /\ ~IsNone(hist.deact)

PositiveEmergencies(f) ==
    {v \in f : v.is_emergency /\ v.distance_to_stop_line > 0}

\* C10: whenever the feed holds emergency vehicles in configured lanes with a
\* positive distance_to_stop_line, an emergency is detected, and the distance
\* and approach used are those of the emergency vehicle with the minimum
\* positive distance, the approach being the first letter of its lane id; also
\* with several emergency vehicles in one lane or on conflicting approaches.
C10_ClosestPositiveDetected ==
    (op = "update" /\ sut = "detect" /\ PositiveEmergencies(feed) # {}) =>
        LET closest == SetMin({v.distance_to_stop_line : v \in PositiveEmergencies(feed)})
        IN  /\ detected.has_emergency
            /\ detected.distance = Some(closest)
            /\ \E v \in PositiveEmergencies(feed) :
                  /\ v.distance_to_stop_line = closest
                  /\ detected.approach = Some(<< Head(v.lane_id) >>)

Gap == Val(validator.last).time - Val(validator.prev).time

\* C11: with every accepted request recorded, for any time t of a first
\* request: a second request at t + 3.0 s is rejected, and with the second
\* request at t + 5.1 s both requests are accepted.
C11_GapBetweenRequests ==
    (sut = "validator" /\ validator.n = 2) =>
        /\ Gap = 30 => ~Val(validator.last).ok
        /\ Gap = 51 => (Val(validator.prev).ok /\ Val(validator.last).ok)

\* C11 as amended: the first request is accepted exactly when it is made at
\* t >= 5.0 s (the gap timer starts at 0); for such a t a second request at
\* t + 3.0 s is rejected and a second request at t + 5.1 s is accepted too.
C11_GapAfterAcceptedRequest ==
    (sut = "validator" /\ validator.n = 2) =>
        /\ Val(validator.prev).ok <=>
               Val(validator.prev).time >= MIN_PHASE_GAP * TICKS_PER_SECOND
        /\ (Val(validator.prev).ok /\ Gap = 30) => ~Val(validator.last).ok
        /\ (Val(validator.prev).ok /\ Gap = 51) => Val(validator.last).ok

\* C11 witness: two requests 5.1 s apart, both accepted
C11_Witness ==
    /\ sut = "validator" /\ validator.n = 2
    /\ Gap = 51
    /\ Val(validator.prev).ok /\ Val(validator.last).ok

\* C12: validate_transition returns ok whenever next_phase equals
\* current_phase, for every now and every value of the gap timer.
C12_SamePhaseAlwaysSafe ==
    (sut = "validator" /\ validator.n > 0) =>
        (Val(validator.last).current_phase = Val(validator.last).next_phase
            => Val(validator.last).ok)

\* C13: in FixedTimeController and AdaptiveController the validator's
\* last_phase_change is written on exactly the update calls in which
\* current_phase changes to the target phase, with the time of that call;
\* rejected requests and the yellow and all-red ticks leave it unchanged, and
\* it equals phase_start_time in every state reached by update calls.
C13_RecordedOncePerCompletion ==
    [][op' = "update" =>
        /\ (ControllerNext.current_phase # Controller.current_phase)
              <=> (ControllerNext.last_phase_change # Controller.last_phase_change)
        /\ ControllerNext.current_phase # Controller.current_phase =>
              /\ ControllerNext.current_phase = Controller.transition_target_phase
              /\ ControllerNext.last_phase_change = now'
        /\ ControllerNext.last_phase_change = ControllerNext.phase_start_time
    ]_vars

\* C13 witness: a transition begun after a rejected request has just completed
C13_Witness ==
    /\ sut = "adaptive" /\ op = "update"
    /\ ~IsNone(hist.rejected_at)
    /\ adaptive.current_phase = "EW_THROUGH"
    /\ adaptive.last_phase_change = now

CurrentGreen == get_phase(Controller.current_phase).sumo_state_green

\* C14: an update whose transition request is rejected at time t leaves the
\* controller out of transition and returns the current phase's green string;
\* so does every update before t + 5 s, without a new attempt; the first
\* update at or after t + 5 s attempts the transition again, and the attempt
\* either begins the transition or is rejected and retried in turn.
C14_RejectedTransitionRetried ==
    [][op' = "update" =>
        /\ (hist'.pending /\ hist'.rejected_at = Some(now')) =>
              /\ ~ControllerNext.in_transition
              /\ ControllerNext.current_phase = Controller.current_phase
              /\ out' = CurrentGreen
        /\ hist.pending =>
              IF now' < Val(hist.rejected_at) + RETRY_DELAY
              THEN /\ hist'.pending /\ hist'.rejected_at = hist.rejected_at
                   /\ ~ControllerNext.in_transition
                   /\ ControllerNext.current_phase = Controller.current_phase
                   /\ out' = CurrentGreen
              ELSE \/ /\ ~hist'.pending
                      /\ ControllerNext.in_transition
                      /\ out' = YellowOf(CurrentGreen)
                   \/ /\ hist'.pending
                      /\ hist'.rejected_at = Some(now')
    ]_vars

\* C14 witness: a transition that was rejected has been attempted again and begun
C14_Witness ==
    /\ sut = "fixed" /\ op = "update"
    /\ ~IsNone(hist.rejected_at) /\ ~hist.pending
    /\ fixed.in_transition
    /\ fixed.last_phase_change < Val(hist.rejected_at)

\* C15: whenever AdaptiveController selects the next phase while the wait
\* timer of a phase other than the current one exceeds
\* MAX_WAIT_BEFORE_OVERRIDE, the phase it selects is that starved phase.
C15_StarvedPhaseSelected ==
    [][(op' = "update" /\ adaptive_transition_due(adaptive, now')) =>
          \A p \in starved_phases(adaptive) :
              adaptive'.transition_target_phase = p
    ]_vars

\* C15 witness: a selection made while E/W was starved has begun the
\* transition to E/W
C15_Witness ==
    /\ sut = "starvation" /\ op = "update"
    /\ hist.forced
    /\ adaptive.in_transition
    /\ adaptive.transition_target_phase = "EW_THROUGH"

\* C16: in every run of AdaptiveController no phase's wait timer exceeds
\* MAX_WAIT_BEFORE_OVERRIDE unless a next-phase selection choosing that phase
\* has been made: the current green is not kept running past that point.
C16_StarvationBound ==
    \A p \in ThroughPhases :
        adaptive.phase_wait_times[p] > MAX_WAIT_BEFORE_OVERRIDE =>
            (adaptive.in_transition /\ adaptive.transition_target_phase = p)

\* Demand of the approaches a phase serves, in the approach metrics am
ServedApproaches(phase_type) ==
    IF phase_type = "NS_THROUGH" THEN {"N", "S"} ELSE {"E", "W"}
ServedQueue(am, phase_type) ==
    IF phase_type = "NS_THROUGH"
    THEN am["N"].total_queue_length + am["S"].total_queue_length
    ELSE am["E"].total_queue_length + am["W"].total_queue_length
ServedVehicles(am, phase_type) ==
    IF phase_type = "NS_THROUGH"
    THEN am["N"].total_vehicles + am["S"].total_vehicles
    ELSE am["E"].total_vehicles + am["W"].total_vehicles

\* g = 1.5 * (queue / 7) / (saturation_flow * approaches * 3), cleared of
\* fractions: 15 * queue = g * 7 * saturation_flow_x10 * approaches * 3.
\* Unclamped compares g with that value: -1 below, 0 equal, 1 above.
Unclamped(g, c, am, phase_type) ==
    LET lhs == g * 7 * c.saturation_flow_x10
                 * Cardinality(ServedApproaches(phase_type)) * 3
        rhs == 15 * ServedQueue(am, phase_type)
    IN  IF lhs < rhs THEN -1 ELSE IF lhs = rhs THEN 0 ELSE 1

\* C17: the green duration planned for the next phase when a transition begins
\* is min_green if the approaches served by that phase report no vehicle, and
\* otherwise 1.5 * (total queue / 7) / (saturation_flow * served approaches * 3)
\* clamped to [min_green, max_green]; it always lies in [min_green, max_green].
C17_PlannedGreenTime ==
    [][(op' = "update" /\ sut = "planning"
            /\ ~adaptive.in_transition /\ adaptive'.in_transition) =>
          LET c == adaptive'
              g == c.planned_green_time
              target == c.transition_target_phase
              am == Val(plan')
          IN  /\ c.min_green <= g /\ g <= c.max_green
              /\ ServedVehicles(am, target) = 0 => g = c.min_green
              /\ ServedVehicles(am, target) > 0 =>
                    \/ Unclamped(g, c, am, target) = 0
                    \/ g = c.min_green /\ Unclamped(g, c, am, target) = 1
                    \/ g = c.max_green /\ Unclamped(g, c, am, target) = -1
    ]_vars

\* C17 witness: a transition to N/S has begun with a planned green strictly
\* between min_green and max_green
C17_Witness ==
    /\ sut = "planning" /\ op = "update"
    /\ ~IsNone(plan) /\ adaptive.in_transition
    /\ adaptive.transition_target_phase = "NS_THROUGH"
    /\ adaptive.min_green < adaptive.planned_green_time
    /\ adaptive.planned_green_time < adaptive.max_green


\* C19: after every LaneStateTracker.update(vehicles, now), for every vehicle
\* list, the snapshot holds exactly one LaneState for each configured lane and
\* nothing else, each carrying timestamp now; a lane without vehicles gets a
\* zero-valued LaneState, never a missing entry.
C19_CompleteSnapshot ==
    (sut = "tracker" /\ op = "update") =>
        /\ DOMAIN tracker.current_states = ConfiguredLanes
        /\ Cardinality(DOMAIN tracker.current_states) = Len(lane_ids)
        /\ \A l \in ConfiguredLanes :
              LET state == tracker.current_states[l]
              IN  /\ state.lane_id = l
                  /\ state.timestamp = now
                  /\ (\A i \in 1..Len(feed) : feed[i].lane_id # Some(l)) =>
                        /\ state.vehicle_count = 0
                        /\ state.stopped_vehicles = 0
                        /\ state.queue_length = 0
                        /\ state.queue_vehicle_count = 0
                        /\ state.avg_waiting_time.num = 0
                        /\ ~state.has_emergency_vehicle

\* C19 witness: after an update that saw vehicles in lane N_in_0, an update
\* whose only vehicles have no lane or a lane that is not configured
C19_Witness ==
    /\ sut = "tracker" /\ op = "update"
    /\ tracker.state_history_len[1] >= 2
    /\ tracker.vehicle_last_lane[2] = Some(N_in_0)
    /\ Len(feed) = 1 /\ feed[1].lane_id = Some(W_in_0)
    /\ tracker.current_states[N_in_0].vehicle_count = 0

\* The vehicles of the latest feed that stand in lane l
StoppedIn(l) ==
    SelectSeq(feed, LAMBDA v : /\ v.lane_id = Some(l)
                               /\ speed_of(v) < STOPPED_SPEED_THRESHOLD_X10)

\* C20: for a vehicle reported at every update, the waiting clock is the time
\* of the first update of its current run of speed below 0.5 m/s and is
\* cleared on any update at which its speed is not below it; a lane's
\* avg_waiting_time is the mean of now - clock over the vehicles currently
\* stopped in the lane, 0 if there is none.
C20_WaitingTimeFromStop ==
    (sut = "tracker" /\ op = "update") =>
        /\ \A id \in TrackIds :
              hist.runs[id].status = "continuous" =>
                  tracker.vehicle_stop_time[id] = hist.runs[id].run
        /\ \A l \in ConfiguredLanes :
              (\A i \in 1..Len(StoppedIn(l)) :
                    hist.runs[StoppedIn(l)[i].track_id].status = "continuous") =>
                  LET avg == tracker.current_states[l].avg_waiting_time
                      total == SeqSum([i \in 1..Len(StoppedIn(l)) |->
                                   now - Val(hist.runs[StoppedIn(l)[i].track_id].run)])
                  IN  IF StoppedIn(l) = << >> THEN avg.num = 0
                      ELSE avg.num * Len(StoppedIn(l)) = avg.den * total

\* C20 witness: vehicle 1, first seen moving, has been standing in lane N_in_0
\* for two updates and its waiting time is counted from the first of them
C20_Witness ==
    /\ sut = "tracker" /\ op = "update"
    /\ hist.runs[1].status = "continuous"
    /\ Len(feed) = 1 /\ feed[1].lane_id = Some(N_in_0)
    /\ ~IsNone(tracker.vehicle_stop_time[1])
    /\ Val(tracker.vehicle_first_seen[1]) < Val(tracker.vehicle_stop_time[1])
    /\ Val(tracker.vehicle_stop_time[1]) < now
    /\ tracker.current_states[N_in_0].avg_waiting_time.num
           = now - Val(tracker.vehicle_stop_time[1])

\* C21: the tracker keeps a vehicle's tracking state (first-seen time,
\* stop-event start time, last speed) while the vehicle has been absent from
\* the feed for less than CLEANUP_TIMEOUT, and has purged it once the vehicle
\* has been absent for more than CLEANUP_TIMEOUT.
C21_StateKeptUntilTimeout ==
    (sut = "tracker" /\ op = "update") =>
        \A id \in TrackIds :
            ~IsNone(hist.last_seen[id]) =>
                /\ now - Val(hist.last_seen[id]) < CLEANUP_TIMEOUT =>
                      /\ ~IsNone(tracker.vehicle_first_seen[id])
                      /\ ~IsNone(tracker.vehicle_last_speed[id])
                /\ now - Val(hist.last_seen[id]) > CLEANUP_TIMEOUT =>
                      /\ IsNone(tracker.vehicle_first_seen[id])
                      /\ IsNone(tracker.vehicle_stop_time[id])
                      /\ IsNone(tracker.vehicle_last_speed[id])

\* The vehicles of the latest feed that meet the queue predicate in lane l
QueuedIn(l) ==
    {i \in 1..Len(feed) :
        /\ feed[i].lane_id = Some(l)
        /\ 0 <= feed[i].distance_to_stop_line
        /\ feed[i].distance_to_stop_line <= QUEUE_DISTANCE_THRESHOLD
        /\ speed_of(feed[i]) < STOPPED_SPEED_THRESHOLD_X10}

\* C22: after every update, for every lane, queue_vehicle_count is the number
\* of vehicles of the lane with 0 <= distance_to_stop_line <= 30 m and speed
\* below 0.5 m/s, and queue_length is the largest of their distances (0 if
\* there is none); so a queued vehicle farther from the stop line than every
\* other queued vehicle of its lane sets queue_length to its own distance.
C22_QueuePredicate ==
    (sut = "tracker" /\ op = "update") =>
        \A l \in ConfiguredLanes :
            LET state == tracker.current_states[l]
            IN  /\ state.queue_vehicle_count = Cardinality(QueuedIn(l))
                /\ QueuedIn(l) = {} => state.queue_length = 0
                /\ \A i \in QueuedIn(l) :
                      (\A j \in QueuedIn(l) :
                          feed[j].distance_to_stop_line
                              <= feed[i].distance_to_stop_line)
                      => state.queue_length = feed[i].distance_to_stop_line

\* C22 witness: vehicle 1 queued at 10 m and vehicle 2 queued at the edge of
\* the queue zone in the same lane, the queue reaching to vehicle 2
C22_Witness ==
    /\ sut = "tracker" /\ op = "update"
    /\ Cardinality(QueuedIn(N_in_0)) = 2
    /\ tracker.current_states[N_in_0].queue_length = QUEUE_DISTANCE_THRESHOLD
    /\ tracker.current_states[N_in_0].queue_vehicle_count = 2

\* The LaneStates of the IntersectionState returned by the latest update
ReturnedLaneStates == Val(istate).lane_states

\* C23: every LaneState of every IntersectionState returned by
\* TrafficStateEstimator.update, smoothing enabled or not, has
\* queue_vehicle_count <= vehicle_count, stopped_vehicles <= vehicle_count,
\* 0 <= queue_length <= LANE_LENGTH and avg_waiting_time >= 0.
C23_LaneStatePlausible ==
    (sut = "estimator" /\ op = "update") =>
        \A l \in DOMAIN ReturnedLaneStates :
            LET state == ReturnedLaneStates[l]
            IN  /\ state.queue_vehicle_count <= state.vehicle_count
                /\ state.stopped_vehicles <= state.vehicle_count
                /\ FracLeq(FracOf(0), state.queue_length)
                /\ FracLeq(state.queue_length, FracOf(LANE_LENGTH))
                /\ FracLeq(FracOf(0), state.avg_waiting_time)

\* C24: in every IntersectionState returned by TrafficStateEstimator.update,
\* total_vehicles and total_stopped are the sums of vehicle_count and
\* stopped_vehicles over its own lane_states, total_waiting_time is the sum of
\* avg_waiting_time x stopped_vehicles over them, and max_queue_length is the
\* largest queue_length among them.
C24_TotalsMatchLanes ==
    (sut = "estimator" /\ op = "update") =>
        LET s == Val(istate)
            ls == ReturnedLaneStates
        IN  /\ DOMAIN ls = ConfiguredLanes
            /\ s.total_vehicles =
                   SeqSum([i \in 1..Len(lane_ids) |-> ls[lane_ids[i]].vehicle_count])
            /\ s.total_stopped =
                   SeqSum([i \in 1..Len(lane_ids) |-> ls[lane_ids[i]].stopped_vehicles])
            /\ \E total \in {FracSum([i \in 1..Len(lane_ids) |->
                                  [num |-> ls[lane_ids[i]].avg_waiting_time.num
                                               * ls[lane_ids[i]].stopped_vehicles,
                                   den |-> ls[lane_ids[i]].avg_waiting_time.den]])} :
                   FracEq(s.total_waiting_time, total)
            /\ \E l \in ConfiguredLanes : FracEq(s.max_queue_length, ls[l].queue_length)
            /\ \A l \in ConfiguredLanes : FracLeq(ls[l].queue_length, s.max_queue_length)

\* C24 witness: smoothing enabled, vehicles waiting in both lanes, and a lane
\* whose smoothed vehicle_count is below the number of vehicles in it
C24_Witness ==
    /\ sut = "estimator" /\ op = "update"
    /\ estimator.enable_smoothing
    /\ Val(istate).total_stopped = 2
    /\ Val(istate).total_vehicles = 1
    /\ Val(istate).total_waiting_time.num > 0
    /\ tracker.current_states[N_in_0].vehicle_count = 1
    /\ tracker.current_states[E_in_0].vehicle_count = 1

\* The returned lane states of an approach, in configuration order
ReturnedOfApproach(a) ==
    LET lids == SelectSeq(lane_ids, LAMBDA l : StartsWith(l, a))
    IN  [i \in 1..Len(lids) |-> ReturnedLaneStates[lids[i]]]

\* C25: with smoothing enabled, each approach's total_vehicles and
\* total_queue_length in the returned approach_metrics are the sums of
\* vehicle_count and queue_length over the smoothed lane states of the same
\* IntersectionState whose lane id starts with the approach letter.
C25_ApproachMetricsAfterSmoothing ==
    (sut = "estimator" /\ op = "update" /\ estimator.enable_smoothing) =>
        \A a \in DOMAIN Val(istate).approach_metrics :
            LET metrics == Val(istate).approach_metrics[a]
                states == ReturnedOfApproach(a)
            IN  /\ metrics.total_vehicles =
                       SeqSum([i \in 1..Len(states) |-> states[i].vehicle_count])
                /\ FracEq(FracOf(metrics.total_queue_length),
                          FracSum([i \in 1..Len(states) |-> states[i].queue_length]))

\* Distances of the emergency vehicles over the returned lane states
EmergencyLaneDistances ==
    {Val(ReturnedLaneStates[l].emergency_vehicle_distance) :
        l \in {k \in DOMAIN ReturnedLaneStates :
                  /\ ReturnedLaneStates[k].has_emergency_vehicle
                  /\ ~IsNone(ReturnedLaneStates[k].emergency_vehicle_distance)}}

\* C26: in every IntersectionState with has_emergency, emergency_distance is
\* the smallest emergency_vehicle_distance over the lanes with an emergency
\* vehicle, and emergency_approach is the approach of a lane that attains it.
C26_ClosestEmergencyApproach ==
    (sut = "estimator" /\ op = "update" /\ Val(istate).has_emergency) =>
        /\ EmergencyLaneDistances # {}
        /\ Val(istate).emergency_distance = Some(SetMin(EmergencyLaneDistances))
        /\ ~IsNone(Val(istate).emergency_approach)
        /\ \E l \in DOMAIN ReturnedLaneStates :
              /\ StartsWith(l, Val(Val(istate).emergency_approach))
              /\ ReturnedLaneStates[l].has_emergency_vehicle
              /\ ReturnedLaneStates[l].emergency_vehicle_distance
                     = Val(istate).emergency_distance

\* C27: the emergency FSM has no terminal state.  In a run whose time keeps
\* growing and in which no emergency vehicle is reported from some time on,
\* the FSM is in NORMAL at some update after that time; and from CLEARING it
\* reaches NORMAL whatever vehicles are reported.
C27_NoTerminalState ==
    /\ ([](now >= QuietFrom => \A v \in feed : ~v.is_emergency))
           => <>(now >= QuietFrom /\ emergency.state = "NORMAL")
    /\ (emergency.state = "CLEARING" /\ now <= MaxTimeLive - ClearingSettle)
           ~> (emergency.state = "NORMAL")

\* C27 witness: the FSM is back in NORMAL after an override, in the quiet
\* part of the run
C27_Witness ==
    /\ sut = "emergency_live" /\ op = "update"
    /\ now >= QuietFrom
    /\ emergency.state = "NORMAL"
    /\ ~IsNone(hist.deact)
    /\ hist.since = Some(now)

\* C28: get_signal_command(), is_active() and get_state_info() of the
\* emergency controller and get_status() of the integrated controller change
\* no controller state: the FSM state, the tracked approach, distance and
\* phase, the entry time, the mode flag and the adaptive controller are the
\* same after the call as before it, so every later update returns what it
\* would have returned without the call.
C28_QueriesChangeNothing ==
    [][op' = "query" =>
        /\ emergency' = emergency
        /\ in_emergency_mode' = in_emergency_mode
        /\ adaptive' = adaptive
        /\ now' = now
        /\ out' = out
        /\ fresh' = fresh
    ]_vars

\* C28 witness: get_signal_command() answered with the forced phase during an
\* override
C28_Witness ==
    /\ sut = "integrated_episodes" /\ op = "query"
    /\ is_active(emergency)
    /\ in_emergency_mode
    /\ ~IsNone(answer)
    /\ Val(answer)[1] = "get_signal_command"
    /\ Val(answer)[2] = << TRUE, "EMERGENCY_EW" >>

\* C29: after reset() in any reachable state, the controller returns, for
\* every later sequence of states and times restarting from 0, the strings
\* that a freshly constructed controller with the same configuration returns.
C29_ResetEqualsFresh ==
    (~IsNone(fresh) /\ op = "update") => out = Val(fresh).out

\* C30: every string returned by the update of the fixed-time, the adaptive
\* and the integrated controller is one of the configured strings, has 12
\* characters out of G, y and r, and never shows a non-red character on an
\* N or S connection together with a non-red character on an E or W
\* connection.
SignalChars == {"G", "y", "r"}

NSConnections == {1, 2, 3, 7, 8, 9}

EWConnections == {4, 5, 6, 10, 11, 12}

ConfiguredStrings ==
    {GREEN_NS, YELLOW_NS, GREEN_EW, YELLOW_EW, ALL_RED}

C30_ReturnedStringsSafe ==
    (op = "update" /\ sut \in {"fixed_episodes", "adaptive_episodes", "integrated_episodes"}) =>
        /\ out \in ConfiguredStrings
        /\ Len(out) = 12
        /\ \A i \in 1..Len(out) : out[i] \in SignalChars
        /\ ~(/\ \E i \in NSConnections : out[i] # "r"
             /\ \E i \in EWConnections : out[i] # "r")

\* C30 witness: the integrated controller returns the east-west green of an
\* emergency override while its adaptive controller holds NS_THROUGH
C30_Witness ==
    /\ sut = "integrated_episodes" /\ op = "update"
    /\ in_emergency_mode
    /\ adaptive.current_phase = "NS_THROUGH"
    /\ out = GREEN_EW

\* C31: constructing a PerceivedVehicle succeeds only if distance_to_stop_line
\* is -1 exactly when lane_id is None, so that no record with a lane and
\* distance -1, or with a distance and no lane, is handed to the tracker.
C31_ConstructionEnforcesIff ==
    (sut = "construction" /\ op = "construct") =>
        /\ Val(answer).outcome = "ok" =>
              (Val(answer).record.distance_to_stop_line = -1
                  <=> IsNone(Val(answer).record.lane_id))
        /\ \A i \in 1..Len(feed) :
              feed[i].distance_to_stop_line = -1 <=> IsNone(feed[i].lane_id)

\* C32: in every transition of the fixed-time and the adaptive controller,
\* at any tick interval, a yellow string that stops being displayed was
\* displayed for at least yellow_duration and an all-red string for at least
\* all_red_duration, counted from the update that first returned it to the
\* update that first returned a different string.
C32_ClearanceDisplayedInFull ==
    (sut \in {"fixed", "adaptive"} /\ op = "update" /\ ~IsNone(hist.ended)) =>
        /\ IsYellow(Val(hist.ended).string) =>
              Val(hist.ended).duration >= YELLOW_DURATION
        /\ Val(hist.ended).string = ALL_RED =>
              Val(hist.ended).duration >= ALL_RED_DURATION

\* The emergency vehicles of a feed on the corridor of a forced phase
OnCorridor(f, phase) ==
    {v \in f : v.is_emergency
                  /\ get_emergency_phase(SplitFirst(v.lane_id)) = phase}

\* C33: the FSM leaves PREEMPTING only on an update at which the vehicle on
\* the preempted corridor is reported within CLEARING_DISTANCE of the stop
\* line or is not reported; an emergency vehicle on another approach does not
\* end the preemption while the served one is still more than 5 m away.
C33_PreemptionHeldForServedVehicle ==
    [][(sut = "emergency_rivals" /\ op' = "update"
          /\ emergency.state = "PREEMPTING" /\ emergency'.state # "PREEMPTING") =>
        \/ OnCorridor(feed', emergency.emergency_phase) = {}
        \/ \E v \in OnCorridor(feed', emergency.emergency_phase) :
              v.distance_to_stop_line <= CLEARING_DISTANCE
    ]_vars

\* The emergency vehicles of a feed that approach the stop line (distance
\* above 0) and are closest to it
ClosestApproaching(f) ==
    LET approaching == {v \in f : v.is_emergency /\ v.distance_to_stop_line > 0}
    IN  {v \in approaching :
            \A w \in approaching : v.distance_to_stop_line <= w.distance_to_stop_line}

PhaseOfApproach(a) ==
    IF a \in {<< "N" >>, << "S" >>} THEN "EMERGENCY_NS" ELSE "EMERGENCY_EW"

\* C34: the forced phase is chosen on the update that enters PREEMPTING, from
\* the approach of the closest emergency vehicle of that tick (N or S gives
\* EMERGENCY_NS, E or W gives EMERGENCY_EW); it stays the same while the
\* override is active, whatever vehicles appear, and is None once the FSM is
\* back in NORMAL.
C34_ForcedPhaseChosenOnce ==
    [][(sut = "emergency_rivals" /\ op' = "update") =>
        /\ (emergency.state # "PREEMPTING" /\ emergency'.state = "PREEMPTING") =>
              \E v \in ClosestApproaching(feed') :
                  emergency'.emergency_phase = PhaseOfApproach(SplitFirst(v.lane_id))
        /\ (is_active(emergency) /\ is_active(emergency')) =>
              emergency'.emergency_phase = emergency.emergency_phase
        /\ emergency'.state = "NORMAL" => emergency'.emergency_phase = "None"
    ]_vars

\* The emergency vehicles of a feed approaching within a distance of the
\* stop line
ApproachingWithin(f, limit) ==
    {v \in f : v.is_emergency /\ v.distance_to_stop_line > 0
                  /\ v.distance_to_stop_line <= limit}

\* C36: the override is never active after the update that first detects an
\* emergency vehicle from NORMAL; if a vehicle is still reported within
\* PREEMPTION_THRESHOLD on the next update, the override is active after it
\* with the phase of such a vehicle's approach; if no vehicle is reported on
\* the next update, the FSM is back in NORMAL with approach and distance
\* cleared.
C36_ConfirmedOnSecondUpdate ==
    [][(sut = "emergency_rivals" /\ op' = "update") =>
        /\ emergency.state = "NORMAL" => ~is_active(emergency')
        /\ (emergency.state = "DETECTED"
               /\ ApproachingWithin(feed', PREEMPTION_THRESHOLD) # {}) =>
              /\ is_active(emergency')
              /\ \E v \in ApproachingWithin(feed', PREEMPTION_THRESHOLD) :
                     emergency'.emergency_phase = PhaseOfApproach(SplitFirst(v.lane_id))
        /\ (emergency.state = "DETECTED" /\ feed' = {}) =>
              /\ emergency'.state = "NORMAL"
              /\ IsNone(emergency'.emergency_approach)
              /\ IsNone(emergency'.emergency_distance)
    ]_vars

\* C35: after every AdaptiveController.update the wait timer of the current
\* phase is 0, and the wait timer of a phase that was not and is not the
\* current phase has advanced by the time between this update and the one
\* before it (timers count tenths of a second, now counts seconds).
C35_WaitTimerFollowsClock ==
    [][(sut = "adaptive" /\ op' = "update") =>
        /\ adaptive'.phase_wait_times[adaptive'.current_phase] = 0
        /\ \A p \in ThroughPhases :
              (p # adaptive.current_phase /\ p # adaptive'.current_phase) =>
                  adaptive'.phase_wait_times[p] =
                      adaptive.phase_wait_times[p] + 10 * (now' - now)
    ]_vars

===========================================================================
